---- MODULE Spec2Model ----
(***************************************************************************)
(* Model of the GitLab integration of claude-code-action:                  *)
(*   - the trigger detector        (context.ts, isValidTrigger)            *)
(*   - the reconciliation decision (api.ts, GitLabAPI.checkTrigger)        *)
(*   - the comment classifier      (api.ts, GitLabAPI.categorizeComments)  *)
(*   - the progress relay          (comment-watcher.ts, watchForUpdates)   *)
(*     together with the part of main() that starts it, stops it and       *)
(*     writes the final status to the tracking note.                       *)
(*                                                                         *)
(* Strings whose characters matter (note bodies, activation phrases,       *)
(* usernames) are sequences of one-character strings.  An optional value   *)
(* (a field that may be undefined) is a sequence of length 0 or 1.         *)
(***************************************************************************)
EXTENDS Integers, Sequences, FiniteSets, TLC

VARIABLES
    \* ---- trigger check / classifier harness
    discussions,    \* what MergeRequestDiscussions.all / IssueDiscussions.all returns
    context,        \* the GitLabContext: [isMR, triggerPhrase]
    entity,         \* what MergeRequests.show / Issues.show returns: [assignee, assignees, labels]
    result,         \* optional TriggerCheckResult of checkTrigger
    categorized,    \* optional CategorizedComments of categorizeComments
    fault,          \* optional host call of checkTrigger that failed: [call, message]
    raised,         \* checkTrigger threw instead of returning
    \* ---- trigger detector harness
    text,           \* note body handed to isValidTrigger
    phrase,         \* context.triggerPhrase handed to isValidTrigger
    detected,       \* optional boolean returned by isValidTrigger
    \* ---- main process, agent, relay (comment watcher) and the hosted note
    pc,             \* position of main()
    watcher,        \* the comment-watcher process: "none", "running", "stopped"
    file,           \* optional content of UPDATE_FILE (<<>> when the file does not exist)
    lastContent,    \* the watcher's lastContent
    requests,       \* updateComment requests of the watcher that have not returned
    note,           \* body of the tracking note on the host
    polls,          \* history: what each poll of the watcher read
    published,      \* history: payload of each updateComment call of the watcher
    applied,        \* history: the watcher requests the host applied, [poll, body]
    anyFailed,      \* history: some updateComment call of the watcher has thrown
    finalStatus,    \* history: the final status main() has written ("" before)
    unpublished,    \* history: contents whose last updateComment call of the watcher threw
    \* ---- main(): its environment and locals
    env,            \* process.env: the CI/CD variables main() reads
    trackingComment,\* optional id of the tracking note (main's trackingComment)
    error,          \* optional message of the error main()'s catch block caught
    log,            \* history: notes written, processes started and stopped by main()
    previous,       \* optional summary of the invocation before this one: [triggerType, completed]
    \* ---- the MCP comment server (gitlab-comment-server.ts)
    server,         \* the server process: "none", "running", "exited"
    toolResult,     \* optional result of the last update_claude_comment call
    toolCalls,      \* history: the update_claude_comment calls, [body, ok]
    \* ---- prompt composer and concurrent invocations
    prompt,         \* optional text of formatGitLabDataForPrompt, as its comment entries
    jobs            \* the invocations running at once: job |-> [pc, result, created]

vars == <<discussions, context, entity, result, categorized, fault, raised,
          text, phrase, detected,
          pc, watcher, file, lastContent, requests, note,
          polls, published, applied, anyFailed, finalStatus, unpublished,
          env, trackingComment, error, log, previous,
          server, toolResult, toolCalls, prompt, jobs>>

triggerVars == <<discussions, context, entity, result, categorized, fault, raised>>
mainVars    == <<env, trackingComment, error, log>>
detectVars  == <<text, phrase, detected>>
toolVars    == <<server, toolResult, toolCalls>>
relayVars   == <<pc, watcher, file, lastContent, requests, note,
                 polls, published, applied, anyFailed, finalStatus>>

-----------------------------------------------------------------------------
(* Optional values *)
None == <<>>
Some(x) == <<x>>

(* Characters and String.prototype.toLowerCase *)
UpperCase == <<"A","B","C","D","E","F","G","H","I","J","K","L","M",
               "N","O","P","Q","R","S","T","U","V","W","X","Y","Z">>
LowerCase == <<"a","b","c","d","e","f","g","h","i","j","k","l","m",
               "n","o","p","q","r","s","t","u","v","w","x","y","z">>

UpperSet == {UpperCase[i] : i \in 1..Len(UpperCase)}
UpperIndex == [c \in UpperSet |-> CHOOSE i \in 1..Len(UpperCase) : UpperCase[i] = c]

lowerChar(c) == IF c \in UpperSet THEN LowerCase[UpperIndex[c]] ELSE c

toLowerCase(s) == [i \in 1..Len(s) |-> lowerChar(s[i])]

(* String.prototype.includes: needle occurs in hay at some offset *)
includes(h, n) ==
    LET hay == h
        needle == n
    IN  \E off \in 0..(Len(hay) - Len(needle)) :
            \A j \in 1..Len(needle) : hay[off + j] = needle[j]

-----------------------------------------------------------------------------
(* context.ts: isValidTrigger(text, context) *)
isValidTrigger_NoLowerText(t, p) == includes(t, toLowerCase(p))

isValidTrigger(t, p) == includes(toLowerCase(t), toLowerCase(p))

-----------------------------------------------------------------------------
(* api.ts: const claudeBotPattern = /claude[- ]?bot/i, used with .test() *)
litAt(s, i, lit) ==
    /\ i + Len(lit) - 1 <= Len(s)
    /\ \A j \in 1..Len(lit) : lowerChar(s[i + j - 1]) = lit[j]

claudeBotPattern(username) ==
    \E i \in 1..Len(username) :
        /\ litAt(username, i, <<"c","l","a","u","d","e">>)
        /\ \/ litAt(username, i + 6, <<"b","o","t">>)
           \/ /\ i + 6 <= Len(username)
              /\ username[i + 6] \in {"-", " "}
              /\ litAt(username, i + 7, <<"b","o","t">>)

(* note.author && ... typeof note.author.username === 'string' &&
   claudeBotPattern.test(note.author.username) *)
isClaudeAuthor(n) == n.author # None /\ claudeBotPattern(n.author[1])

(* note.body && isValidTrigger(note.body, context) *)
isTriggerNote(n, ctx) ==
    /\ n.body # None
    /\ n.body[1] # <<>>
    /\ isValidTrigger(n.body[1], ctx.triggerPhrase)

RECURSIVE Flatten(_)
Flatten(ss) == IF ss = <<>> THEN <<>> ELSE Head(ss) \o Flatten(Tail(ss))

(* the assignee test of checkTrigger: === 'claude-bot' on assignee and assignees *)
AssigneeName == <<"c","l","a","u","d","e","-","b","o","t">>

isAssigned(mr) ==
    \/ (mr.assignee # None /\ mr.assignee[1] = AssigneeName)
    \/ \E i \in 1..Len(mr.assignees) : mr.assignees[i] = AssigneeName

(* entity.labels?.includes('claude') *)
hasClaudeLabel_FirstOnly(e) == Len(e.labels) > 0 /\ e.labels[1] = "claude"

hasClaudeLabel(e) == \E i \in 1..Len(e.labels) : e.labels[i] = "claude"

(* the trigger comments checkTrigger collects, discussion by discussion *)
hasClaudeReplyIn(d) == \E i \in 1..Len(d.notes) : isClaudeAuthor(d.notes[i])

triggersOfDiscussion(d, ctx, answered) ==
    LET trig == SelectSeq(d.notes, LAMBDA n : isTriggerNote(n, ctx))
    IN  [i \in 1..Len(trig) |->
            [note |-> trig[i], discussionId |-> d.id, hasClaudeReply |-> answered]]

collectTriggers_GlobalReply(discs, ctx) ==
    LET anyReply == \E k \in 1..Len(discs) : hasClaudeReplyIn(discs[k])
    IN  Flatten([k \in 1..Len(discs) |-> triggersOfDiscussion(discs[k], ctx, anyReply)])

collectTriggers(discs, ctx) ==
    Flatten([k \in 1..Len(discs) |->
                triggersOfDiscussion(discs[k], ctx, hasClaudeReplyIn(discs[k]))])

(* the decision of checkTrigger once the trigger comments are collected *)
TriggerResult(run, why, type, trigs, existing) ==
    [shouldRun |-> run, reason |-> why, triggerType |-> type,
     triggerComments |-> trigs, hasExistingResponse |-> existing]

NewTriggerReason(n) ==
    "Found " \o ToString(n) \o " new trigger comment(s) without Claude replies"

metadataDecision_LabelFirst(ctx, e) ==
    IF hasClaudeLabel(e)
    THEN TriggerResult(TRUE, "Found claude label", Some("label"), <<>>, FALSE)
    ELSE IF ctx.isMR /\ isAssigned(e)
    THEN TriggerResult(TRUE, "Claude bot is assigned", Some("assignment"), <<>>, FALSE)
    ELSE TriggerResult(FALSE, "No trigger found", None, <<>>, FALSE)

metadataDecision_AnyUnit(ctx, e) ==
    IF isAssigned(e)
    THEN TriggerResult(TRUE, "Claude bot is assigned", Some("assignment"), <<>>, FALSE)
    ELSE IF hasClaudeLabel(e)
    THEN TriggerResult(TRUE, "Found claude label", Some("label"), <<>>, FALSE)
    ELSE TriggerResult(FALSE, "No trigger found", None, <<>>, FALSE)

metadataDecision(ctx, e) ==
    IF ctx.isMR /\ isAssigned(e)
    THEN TriggerResult(TRUE, "Claude bot is assigned", Some("assignment"), <<>>, FALSE)
    ELSE IF hasClaudeLabel(e)
    THEN TriggerResult(TRUE, "Found claude label", Some("label"), <<>>, FALSE)
    ELSE TriggerResult(FALSE, "No trigger found", None, <<>>, FALSE)

decide_NoSuppression(triggerComments, ctx, e) ==
    LET newTriggers == SelectSeq(triggerComments, LAMBDA t : ~t.hasClaudeReply)
    IN  IF Len(newTriggers) > 0
        THEN TriggerResult(TRUE, NewTriggerReason(Len(newTriggers)), Some("comment"),
                           newTriggers,
                           \E i \in 1..Len(triggerComments) : triggerComments[i].hasClaudeReply)
        ELSE metadataDecision(ctx, e)

decide_CountsAllTriggers(triggerComments, ctx, e) ==
    LET newTriggers == SelectSeq(triggerComments, LAMBDA t : ~t.hasClaudeReply)
    IN  IF Len(newTriggers) > 0
        THEN TriggerResult(TRUE, NewTriggerReason(Len(triggerComments)), Some("comment"),
                           newTriggers,
                           \E i \in 1..Len(triggerComments) : triggerComments[i].hasClaudeReply)
        ELSE IF Len(triggerComments) > 0
        THEN TriggerResult(FALSE, "All trigger comments already have Claude replies",
                           Some("comment"), <<>>, TRUE)
        ELSE metadataDecision(ctx, e)

decide_ReturnsAllTriggers(triggerComments, ctx, e) ==
    LET newTriggers == SelectSeq(triggerComments, LAMBDA t : ~t.hasClaudeReply)
    IN  IF Len(newTriggers) > 0
        THEN TriggerResult(TRUE, NewTriggerReason(Len(newTriggers)), Some("comment"),
                           triggerComments,
                           \E i \in 1..Len(triggerComments) : triggerComments[i].hasClaudeReply)
        ELSE IF Len(triggerComments) > 0
        THEN TriggerResult(FALSE, "All trigger comments already have Claude replies",
                           Some("comment"), <<>>, TRUE)
        ELSE metadataDecision(ctx, e)

decide(triggerComments, ctx, e) ==
    LET newTriggers == SelectSeq(triggerComments, LAMBDA t : ~t.hasClaudeReply)
    IN  IF Len(newTriggers) > 0
        THEN TriggerResult(TRUE, NewTriggerReason(Len(newTriggers)), Some("comment"),
                           newTriggers,
                           \E i \in 1..Len(triggerComments) : triggerComments[i].hasClaudeReply)
        ELSE IF Len(triggerComments) > 0
        THEN TriggerResult(FALSE, "All trigger comments already have Claude replies",
                           Some("comment"), <<>>, TRUE)
        ELSE metadataDecision(ctx, e)

(* api.ts: GitLabAPI.checkTrigger, on a successful fetch of the discussions
   and of the merge request / issue *)
checkTrigger(discs, ctx, e) == decide(collectTriggers(discs, ctx), ctx, e)

(* Outcome of a call: it returns a value or throws an error *)
Return(v) == [threw |-> FALSE, value |-> v, message |-> ""]
Throw(m)  == [threw |-> TRUE, value |-> <<>>, message |-> m]

(* `${error}` of an Error object: its name, ": ", its message *)
errorString(err) == err.name \o ": " \o err.message

(* the host calls checkTrigger awaits, in order: the discussions, then, when
   no note holds the phrase, MergeRequests.show for the assignees (merge
   request only) and, unless the bot is assigned, show again for the labels *)
hostCalls(discs, ctx, e) ==
    IF Len(collectTriggers(discs, ctx)) > 0 THEN <<"discussions">>
    ELSE IF ctx.isMR /\ isAssigned(e) THEN <<"discussions", "show">>
    ELSE IF ctx.isMR THEN <<"discussions", "show", "show">>
    ELSE <<"discussions", "show">>

failed(discs, ctx, e, f) == f # None /\ f[1].call <= Len(hostCalls(discs, ctx, e))

(* api.ts: GitLabAPI.checkTrigger with its try { ... } catch (error) { ... },
   when the host call number f[1].call (if any) rejects with f[1] *)
checkTriggerCatch_DiscussionsOnly(discs, ctx, e, f) ==
    IF failed(discs, ctx, e, f)
    THEN IF f[1].call = 1
         THEN Return(TriggerResult(FALSE, "Error checking trigger: " \o errorString(f[1]),
                                   None, <<>>, FALSE))
         ELSE Throw(f[1].message)
    ELSE Return(checkTrigger(discs, ctx, e))

checkTriggerCatch(discs, ctx, e, f) ==
    IF failed(discs, ctx, e, f)
    THEN Return(TriggerResult(FALSE, "Error checking trigger: " \o errorString(f[1]),
                              None, <<>>, FALSE))
    ELSE Return(checkTrigger(discs, ctx, e))

-----------------------------------------------------------------------------
(* api.ts: GitLabAPI.categorizeComments.  categoriesOf gives the output
   arrays one note is pushed to by the two passes over its discussion. *)
categoriesOf_NoElse(n, isResolved, ctx) ==
    IF isClaudeAuthor(n) THEN {"claudeReplies"}
    ELSE (IF isTriggerNote(n, ctx) THEN {"triggerComments"} ELSE {})
         \cup (IF isResolved THEN {"resolvedComments"} ELSE {"contextComments"})

categoriesOf_ResolvedFirst(n, isResolved, ctx) ==
    IF isClaudeAuthor(n) THEN {"claudeReplies"}
    ELSE IF isResolved THEN {"resolvedComments"}
    ELSE IF isTriggerNote(n, ctx) THEN {"triggerComments"}
    ELSE {"contextComments"}

categoriesOf_NoSkip(n, isResolved, ctx) ==
    (IF isClaudeAuthor(n) THEN {"claudeReplies"} ELSE {})
    \cup (IF isTriggerNote(n, ctx) THEN {"triggerComments"}
          ELSE IF isResolved THEN {"resolvedComments"}
          ELSE {"contextComments"})

categoriesOf_DropsNoBody(n, isResolved, ctx) ==
    IF isClaudeAuthor(n) THEN {"claudeReplies"}
    ELSE IF n.body = None \/ n.body[1] = <<>> THEN {}
    ELSE IF isTriggerNote(n, ctx) THEN {"triggerComments"}
    ELSE IF isResolved THEN {"resolvedComments"}
    ELSE {"contextComments"}

categoriesOf(n, isResolved, ctx) ==
    IF isClaudeAuthor(n) THEN {"claudeReplies"}
    ELSE IF isTriggerNote(n, ctx) THEN {"triggerComments"}
    ELSE IF isResolved THEN {"resolvedComments"}
    ELSE {"contextComments"}

pushedTo_SortedById(discs, ctx, cat) ==
    SortSeq(Flatten([k \in 1..Len(discs) |->
                SelectSeq(discs[k].notes,
                          LAMBDA n : cat \in categoriesOf(n, discs[k].resolved, ctx))]),
            LAMBDA a, b : a.id < b.id)

pushedTo(discs, ctx, cat) ==
    Flatten([k \in 1..Len(discs) |->
        SelectSeq(discs[k].notes,
                  LAMBDA n : cat \in categoriesOf(n, discs[k].resolved, ctx))])

categorizeComments(discs, ctx) ==
    [triggerComments  |-> pushedTo(discs, ctx, "triggerComments"),
     contextComments  |-> pushedTo(discs, ctx, "contextComments"),
     resolvedComments |-> pushedTo(discs, ctx, "resolvedComments"),
     claudeReplies    |-> pushedTo(discs, ctx, "claudeReplies")]

-----------------------------------------------------------------------------
(* Bounds of the inputs *)
MaxDiscussions == 2     \* discussions of the review unit
MaxNotes == 3           \* notes of the review unit, over all its discussions
MaxText == 3            \* characters of a note body handed to the detector
MaxPhrase == 2          \* characters of an activation phrase handed to the detector

(* Concrete strings *)
AtClaude     == <<"@","c","l","a","u","d","e">>     \* default triggerPhrase
TriggerBody  == <<"H","e","y"," ","@","C","L","A","U","D","E"," ","c","a","n"," ",
                  "y","o","u"," ","h","e","l","p","?">>
PlainBody    == <<"N","o"," ","t","r","i","g","g","e","r"," ","h","e","r","e">>
BotName      == <<"c","l","a","u","d","e","-","b","o","t">>
AltBotName   == <<"C","l","a","u","d","e","B","o","t">>
Alice        == <<"a","l","i","c","e">>

(* Idle values of the variables a specification does not use *)
TriggerIdle ==
    /\ discussions = <<>>
    /\ context = [isMR |-> TRUE, triggerPhrase |-> AtClaude]
    /\ entity = [assignee |-> None, assignees |-> <<>>, labels |-> <<>>]
    /\ result = None
    /\ categorized = None
    /\ fault = None
    /\ raised = FALSE

DetectIdle == text = <<>> /\ phrase = AtClaude /\ detected = None

RelayIdle ==
    /\ pc = "idle"
    /\ watcher = "none"
    /\ file = None
    /\ lastContent = ""
    /\ requests = {}
    /\ note = ""
    /\ polls = <<>>
    /\ published = <<>>
    /\ applied = <<>>
    /\ anyFailed = FALSE
    /\ finalStatus = ""
    /\ unpublished = {}

ToolIdle == server = "none" /\ toolResult = None /\ toolCalls = <<>>

MainIdle ==
    /\ env = [CI_PROJECT_ID |-> None]
    /\ trackingComment = None
    /\ error = None
    /\ log = <<>>
    /\ previous = None
    /\ ToolIdle

-----------------------------------------------------------------------------
(* Every review unit within the bounds: at most MaxDiscussions discussions,
   each with at least one note, at most MaxNotes notes in all *)
NoteKinds ==
    {[author |-> a, body |-> b] : a \in {Some(BotName), Some(Alice)},
                                  b \in {Some(TriggerBody), Some(PlainBody)}}

RECURSIVE RawDiscussions(_, _, _)
RawDiscussions(d, t, resolutions) ==
    IF d = 0 \/ t = 0 THEN {<<>>}
    ELSE {<<>>} \cup
         UNION {{<<[notes |-> ns, resolved |-> r]>> \o rest :
                    ns \in [1..k -> NoteKinds], r \in resolutions,
                    rest \in RawDiscussions(d - 1, t - k, resolutions)} : k \in 1..t}

WithIds(raw) ==
    [k \in 1..Len(raw) |->
        [id |-> k, resolved |-> raw[k].resolved,
         notes |-> [j \in 1..Len(raw[k].notes) |->
                       [id |-> (k - 1) * MaxNotes + j,
                        author |-> raw[k].notes[j].author,
                        body |-> raw[k].notes[j].body]]]]

Assignments ==
    {[assignee |-> None, assignees |-> <<>>],
     [assignee |-> Some(BotName), assignees |-> <<BotName>>],
     [assignee |-> Some(Alice), assignees |-> <<Alice, BotName>>],
     [assignee |-> Some(AltBotName), assignees |-> <<AltBotName>>]}

Entities ==
    {[assignee |-> a.assignee, assignees |-> a.assignees, labels |-> l] :
        a \in Assignments, l \in {<<"bug">>, <<"bug", "claude">>}}

(* Trigger check: checkTrigger does not read discussion.resolved *)
InitTrigger ==
    /\ prompt = None
    /\ jobs = <<>>
    /\ discussions \in {WithIds(raw) :
                            raw \in RawDiscussions(MaxDiscussions, MaxNotes, {FALSE})}
    /\ context \in {[isMR |-> b, triggerPhrase |-> AtClaude] : b \in BOOLEAN}
    /\ entity \in Entities
    /\ result = None
    /\ categorized = None
    /\ fault = None
    /\ raised = FALSE
    /\ DetectIdle
    /\ RelayIdle
    /\ MainIdle

(* main.ts: const triggerCheck = await api.checkTrigger(context); every
   invocation on the same fetched data runs it again *)
CheckTrigger ==
    /\ result' = Some(checkTrigger(discussions, context, entity))
    /\ UNCHANGED <<discussions, context, entity, categorized, fault, raised,
                   detectVars, relayVars, mainVars, unpublished, previous, toolVars, prompt, jobs>>

NextTrigger == CheckTrigger

SpecTrigger == InitTrigger /\ [][NextTrigger]_vars

-----------------------------------------------------------------------------
(* Trigger check when a host call may fail (transport error, HTTP error) *)
HostErrors ==
    {[name |-> "Error", message |-> "Request timed out"],
     [name |-> "HTTPError", message |-> "Response code 404 (Not Found)"]}

Faults ==
    {None} \cup {Some([call |-> c, name |-> h.name, message |-> h.message]) :
                    c \in 1..3, h \in HostErrors}

InitFetch ==
    /\ prompt = None
    /\ jobs = <<>>
    /\ discussions \in {WithIds(raw) :
                            raw \in RawDiscussions(MaxDiscussions - 1, MaxNotes - 1, {FALSE})}
    /\ context \in {[isMR |-> b, triggerPhrase |-> AtClaude] : b \in BOOLEAN}
    /\ entity \in Entities
    /\ result = None
    /\ categorized = None
    /\ fault = None
    /\ raised = FALSE
    /\ DetectIdle
    /\ RelayIdle
    /\ MainIdle

(* api.checkTrigger(context) is called; one of its host calls may reject *)
CheckTriggerFetch ==
    /\ result = None /\ ~raised
    /\ \E f \in Faults :
          LET out == checkTriggerCatch(discussions, context, entity, f)
          IN  /\ fault' = f
              /\ raised' = out.threw
              /\ result' = IF out.threw THEN None ELSE Some(out.value)
    /\ UNCHANGED <<discussions, context, entity, categorized,
                   detectVars, relayVars, mainVars, unpublished, previous, toolVars, prompt, jobs>>

NextFetch == CheckTriggerFetch

SpecFetch == InitFetch /\ [][NextFetch]_vars

-----------------------------------------------------------------------------
(* Classifier: categorizeComments does not read the merge request / issue *)
InitClassify ==
    /\ prompt = None
    /\ jobs = <<>>
    /\ discussions \in {WithIds(raw) :
                            raw \in RawDiscussions(MaxDiscussions, MaxNotes, BOOLEAN)}
    /\ context \in {[isMR |-> b, triggerPhrase |-> AtClaude] : b \in BOOLEAN}
    /\ entity = [assignee |-> None, assignees |-> <<>>, labels |-> <<>>]
    /\ result = None
    /\ categorized = None
    /\ fault = None
    /\ raised = FALSE
    /\ DetectIdle
    /\ RelayIdle
    /\ MainIdle

(* api.ts fetchData: result.categorizedComments = this.categorizeComments(...) *)
CategorizeComments ==
    /\ categorized = None
    /\ categorized' = Some(categorizeComments(discussions, context))
    /\ UNCHANGED <<discussions, context, entity, result, fault, raised,
                   detectVars, relayVars, mainVars, unpublished, previous, toolVars, prompt, jobs>>

NextClassify == CategorizeComments

SpecClassify == InitClassify /\ [][NextClassify]_vars

-----------------------------------------------------------------------------
(* One invocation runs both on the same review unit: checkTrigger in main()
   and categorizeComments inside fetchData *)
NextAgree ==
    \/ CheckTrigger
    \/ CategorizeComments

SpecAgree == InitClassify /\ [][NextAgree]_vars

-----------------------------------------------------------------------------
(* Classifier on discussions as the host numbers their notes: note ids grow
   with creation time, and a discussion that started earlier can hold a
   reply created after the first note of a later discussion.  The j-th note
   of discussion k gets id (j - 1) * MaxDiscussions + k. *)
WithCreationIds(raw) ==
    [k \in 1..Len(raw) |->
        [id |-> k, resolved |-> raw[k].resolved,
         notes |-> [j \in 1..Len(raw[k].notes) |->
                       [id |-> (j - 1) * MaxDiscussions + k,
                        author |-> raw[k].notes[j].author,
                        body |-> raw[k].notes[j].body]]]]

InitOrder ==
    /\ prompt = None
    /\ jobs = <<>>
    /\ discussions \in {WithCreationIds(raw) :
                            raw \in RawDiscussions(MaxDiscussions, MaxNotes, BOOLEAN)}
    /\ context \in {[isMR |-> b, triggerPhrase |-> AtClaude] : b \in BOOLEAN}
    /\ entity = [assignee |-> None, assignees |-> <<>>, labels |-> <<>>]
    /\ result = None
    /\ categorized = None
    /\ fault = None
    /\ raised = FALSE
    /\ DetectIdle
    /\ RelayIdle
    /\ MainIdle

SpecOrder == InitOrder /\ [][NextClassify]_vars

-----------------------------------------------------------------------------
(* formatter.ts formatGitLabDataForPrompt: the part of the prompt built from
   data.categorizedComments.  The text is kept as its comment entries, one
   per `**@author** (date):\nbody` block, each under its section heading.
   Only triggerComments, contextComments and claudeReplies are destructured
   from categorizedComments. *)
Unknown == <<"u", "n", "k", "n", "o", "w", "n">>

ClaudeName == <<"C", "l", "a", "u", "d", "e">>

renderedAuthor(n) == IF n.author # None /\ n.author[1] # <<>> THEN n.author[1] ELSE Unknown

renderedBody(n) == IF n.body # None THEN n.body[1] ELSE <<>>

commentEntries(section, notes) ==
    [i \in 1..Len(notes) |->
        [section |-> section, author |-> renderedAuthor(notes[i]),
         body |-> renderedBody(notes[i])]]

claudeEntries(notes) ==
    [i \in 1..Len(notes) |->
        [section |-> "Previous Claude Responses", author |-> ClaudeName,
         body |-> renderedBody(notes[i])]]

formatGitLabDataForPrompt(cat) ==
    commentEntries("Questions for Claude", cat.triggerComments)
        \o commentEntries("Discussion Context", cat.contextComments)
        \o claudeEntries(cat.claudeReplies)

(* main.ts 403-405: prompt = formatGitLabDataForPrompt(data, context) *)
FormatPrompt ==
    /\ categorized # None
    /\ prompt = None
    /\ prompt' = Some(formatGitLabDataForPrompt(categorized[1]))
    /\ UNCHANGED <<triggerVars, detectVars, relayVars, mainVars, unpublished, previous,
                   toolVars, jobs>>

NextPrompt ==
    \/ CategorizeComments
    \/ FormatPrompt

SpecPrompt == InitClassify /\ [][NextPrompt]_vars

-----------------------------------------------------------------------------
(* Classifier on malformed notes: the author or the body of a note may be
   missing (undefined), the body may be empty *)
MalformedKinds ==
    {[author |-> a, body |-> b] : a \in {None, Some(BotName), Some(Alice)},
                                  b \in {None, Some(<<>>), Some(TriggerBody)}}

RECURSIVE RawDiscussionsOf(_, _, _, _)
RawDiscussionsOf(kinds, d, t, resolutions) ==
    IF d = 0 \/ t = 0 THEN {<<>>}
    ELSE {<<>>} \cup
         UNION {{<<[notes |-> ns, resolved |-> r]>> \o rest :
                    ns \in [1..k -> kinds], r \in resolutions,
                    rest \in RawDiscussionsOf(kinds, d - 1, t - k, resolutions)} : k \in 1..t}

InitMalformed ==
    /\ prompt = None
    /\ jobs = <<>>
    /\ discussions \in {WithIds(raw) : raw \in
            RawDiscussionsOf(MalformedKinds, MaxDiscussions - 1, MaxNotes - 1, BOOLEAN)}
    /\ context \in {[isMR |-> b, triggerPhrase |-> AtClaude] : b \in BOOLEAN}
    /\ entity = [assignee |-> None, assignees |-> <<>>, labels |-> <<>>]
    /\ result = None
    /\ categorized = None
    /\ fault = None
    /\ raised = FALSE
    /\ DetectIdle
    /\ RelayIdle
    /\ MainIdle

SpecMalformed == InitMalformed /\ [][NextClassify]_vars

-----------------------------------------------------------------------------
(* Trigger detector: every body and phrase within the bounds, and the
   bodies of the documented scenario *)
DetectAlphabet == {"@", "c", "C", "x"}

BoundedStrings(n) == UNION {[1..k -> DetectAlphabet] : k \in 0..n}

InitDetect ==
    /\ prompt = None
    /\ jobs = <<>>
    /\ \/ /\ text \in BoundedStrings(MaxText)
          /\ phrase \in BoundedStrings(MaxPhrase)
       \/ /\ text \in {TriggerBody, PlainBody}
          /\ phrase \in {AtClaude}
    /\ detected = None
    /\ TriggerIdle
    /\ RelayIdle
    /\ MainIdle

DetectTrigger ==
    /\ detected = None
    /\ detected' = Some(isValidTrigger(text, phrase))
    /\ UNCHANGED <<text, phrase, triggerVars, relayVars, mainVars, unpublished, previous, toolVars, prompt, jobs>>

NextDetect == DetectTrigger

SpecDetect == InitDetect /\ [][NextDetect]_vars

-----------------------------------------------------------------------------
(* process.env: a variable is unset (None) or holds a string, a sequence of
   characters.  `v || d` takes d when v is unset or empty. *)
truthy(v) == v # None /\ v[1] # <<>>

orElse(v, d) == IF truthy(v) THEN v[1] ELSE d

(* parseInt(string): the value of the leading decimal digits, NaN (None)
   when the string does not start with a digit *)
Digits == <<"0", "1", "2", "3", "4", "5", "6", "7", "8", "9">>
DigitSet == {Digits[i] : i \in 1..Len(Digits)}
DigitValue == [c \in DigitSet |-> (CHOOSE i \in 1..Len(Digits) : Digits[i] = c) - 1]

RECURSIVE leadingDigits(_)
leadingDigits(s) ==
    IF s = <<>> \/ Head(s) \notin DigitSet THEN <<>>
    ELSE <<Head(s)>> \o leadingDigits(Tail(s))

RECURSIVE decimalValue(_)
decimalValue(ds) ==
    IF ds = <<>> THEN 0
    ELSE 10 * decimalValue(SubSeq(ds, 1, Len(ds) - 1)) + DigitValue[ds[Len(ds)]]

parseInt(s) ==
    LET ds == leadingDigits(s)
    IN  IF ds = <<>> THEN None ELSE Some(decimalValue(ds))

(* context.ts: parseGitLabContext() *)
NoTokenMessage ==
    "No GitLab token found. Please set CLAUDE_BOT_TOKEN or GITLAB_TOKEN in CI/CD variables."
NoProjectMessage == "CI_PROJECT_ID environment variable is required"
NoIidMessage ==
    "No MR or Issue IID found. Ensure CI_MERGE_REQUEST_IID or CI_ISSUE_IID is set."

parseGitLabContext_NoTokenCheck(e) ==
    LET isMR == truthy(e.CI_MERGE_REQUEST_IID)
        iid == parseInt(IF isMR THEN e.CI_MERGE_REQUEST_IID[1]
                                ELSE orElse(e.CI_ISSUE_IID, <<"0">>))
        token == orElse(e.GITLAB_TOKEN, orElse(e.CLAUDE_BOT_TOKEN, orElse(e.CI_JOB_TOKEN, <<>>)))
        projectId == orElse(e.CI_PROJECT_ID, <<>>)
    IN  IF projectId = <<>> THEN Throw(NoProjectMessage)
        ELSE IF (iid = None \/ iid = Some(0)) /\ iid # Some(0) THEN Throw(NoIidMessage)
        ELSE Return([isMR |-> isMR, iid |-> iid, token |-> token, projectId |-> projectId,
                     triggerPhrase |-> orElse(e.CLAUDE_TRIGGER_PHRASE, AtClaude),
                     sourceBranch |-> e.CI_MERGE_REQUEST_SOURCE_BRANCH_NAME,
                     targetBranch |-> e.CI_MERGE_REQUEST_TARGET_BRANCH_NAME])

parseGitLabContext(e) ==
    LET isMR == truthy(e.CI_MERGE_REQUEST_IID)
        iid == parseInt(IF isMR THEN e.CI_MERGE_REQUEST_IID[1]
                                ELSE orElse(e.CI_ISSUE_IID, <<"0">>))
        token == orElse(e.GITLAB_TOKEN, orElse(e.CLAUDE_BOT_TOKEN, orElse(e.CI_JOB_TOKEN, <<>>)))
        projectId == orElse(e.CI_PROJECT_ID, <<>>)
    IN  IF token = <<>> THEN Throw(NoTokenMessage)
        ELSE IF projectId = <<>> THEN Throw(NoProjectMessage)
        ELSE IF (iid = None \/ iid = Some(0)) /\ iid # Some(0) THEN Throw(NoIidMessage)
        ELSE Return([isMR |-> isMR, iid |-> iid, token |-> token, projectId |-> projectId,
                     triggerPhrase |-> orElse(e.CLAUDE_TRIGGER_PHRASE, AtClaude),
                     sourceBranch |-> e.CI_MERGE_REQUEST_SOURCE_BRANCH_NAME,
                     targetBranch |-> e.CI_MERGE_REQUEST_TARGET_BRANCH_NAME])

(* upstream/validate-env (stub): validateEnvironmentVariables() *)
validateEnvironmentVariables(e) ==
    IF ~truthy(e.ANTHROPIC_API_KEY) THEN Throw("ANTHROPIC_API_KEY is required")
    ELSE IF ~truthy(e.GITLAB_TOKEN) /\ ~truthy(e.CLAUDE_BOT_TOKEN)
        THEN Throw("GITLAB_TOKEN or CLAUDE_BOT_TOKEN is required")
    ELSE Return(TRUE)

-----------------------------------------------------------------------------
(* main.ts (the version that starts comment-watcher.ts) from the start of
   the watcher to process.exit, the agent writing UPDATE_FILE, the watcher's
   setInterval callback, and the host applying updateComment requests.

   The callback is async: it returns at `await api.updateComment(...)`, and
   the timer fires again CHECK_INTERVAL later whether or not that request has
   returned (requestTimeout is 30000 ms), so several requests of the watcher
   can be outstanding.  A request that has been sent is applied by the host
   whether or not the watcher still runs. *)
Event(op, arg, ok) == [op |-> op, arg |-> arg, ok |-> ok, id |-> None]

(* a host call or a process that names a note: id is the optional noteId *)
NoteEvent(op, id, arg, ok) == [op |-> op, arg |-> arg, ok |-> ok, id |-> id]

(* Number.prototype.toString of a non-negative integer *)
RECURSIVE toString(_)
toString(n) ==
    IF n < 10 THEN <<Digits[n + 1]>>
    ELSE toString(n \div 10) \o <<Digits[(n % 10) + 1]>>

TrackingId == 100       \* id the host gives the tracking note

Token == <<"t">>

PassingEnv ==
    [CI_MERGE_REQUEST_IID |-> Some(<<"4", "2">>), CI_ISSUE_IID |-> None,
     GITLAB_TOKEN |-> Some(Token), CLAUDE_BOT_TOKEN |-> None, CI_JOB_TOKEN |-> None,
     CI_PROJECT_ID |-> Some(<<"1">>), ANTHROPIC_API_KEY |-> Some(<<"k">>),
     CLAUDE_TRIGGER_PHRASE |-> None, CLAUDE_COMMENT_ID |-> None,
     CI_MERGE_REQUEST_SOURCE_BRANCH_NAME |-> Some(<<"f">>),
     CI_MERGE_REQUEST_TARGET_BRANCH_NAME |-> Some(<<"m">>)]

MaxPolls == 4           \* polls of the watcher
MaxInFlight == 2        \* updateComment requests of the watcher outstanding at once

AgentContents == {"A", "B"}

InitRelay ==
    /\ prompt = None
    /\ jobs = <<>>
    /\ pc = "start"
    /\ watcher = "none"
    /\ file \in {None, Some("")}
    /\ lastContent = ""
    /\ requests = {}
    /\ note = "initial"
    /\ polls = <<>>
    /\ published = <<>>
    /\ applied = <<>>
    /\ anyFailed = FALSE
    /\ finalStatus = ""
    /\ unpublished = {}
    /\ env = [PassingEnv EXCEPT !.CLAUDE_COMMENT_ID = Some(toString(TrackingId))]
    /\ trackingComment = Some(TrackingId)
    /\ error = None
    /\ log = <<NoteEvent("createComment", Some(TrackingId), "initial", TRUE)>>
    /\ previous = None
    /\ ToolIdle
    /\ TriggerIdle
    /\ DetectIdle

(* main.ts 435-447: execSync(`nohup bun ${watcherPath} ... &`), then runClaude.
   The watcher edits noteId: parseInt(process.env.CLAUDE_COMMENT_ID)
   (comment-watcher.ts 601, 631) *)
StartWatcher ==
    /\ pc = "start"
    /\ pc' = "agent"
    /\ watcher' = "running"
    /\ log' = log \o <<NoteEvent("startWatcher", parseInt(env.CLAUDE_COMMENT_ID[1]), "", TRUE),
                       Event("runClaude", "", TRUE)>>
    /\ UNCHANGED <<file, lastContent, requests, note, polls, published, applied,
                   anyFailed, finalStatus, triggerVars, detectVars,
                   env, trackingComment, error, unpublished, previous, toolVars, prompt, jobs>>

(* the agent, while runClaude is pending, replaces the content of UPDATE_FILE *)
AgentWrite(v) ==
    /\ pc = "agent"
    /\ file # Some(v)
    /\ file' = Some(v)
    /\ UNCHANGED <<pc, watcher, lastContent, requests, note, polls, published, applied,
                   anyFailed, finalStatus, triggerVars, detectVars, mainVars, unpublished, previous, toolVars, prompt, jobs>>

(* comment-watcher.ts 619-633: one firing of the setInterval callback, up to
   the await of updateComment.  readFile of a missing file throws ENOENT,
   which the catch ignores. *)
shouldPublish(content, last) == content # None /\ content[1] # "" /\ content[1] # last

Poll_MissingStops ==
    /\ watcher = "running"
    /\ Len(polls) < MaxPolls
    /\ Cardinality(requests) < MaxInFlight
    /\ polls' = Append(polls, file)
    /\ watcher' = IF file = None THEN "stopped" ELSE watcher
    /\ IF shouldPublish(file, lastContent)
       THEN /\ requests' = requests \cup
                    {[poll |-> Len(polls) + 1, body |-> file[1], state |-> "sent"]}
            /\ published' = Append(published, file[1])
            /\ unpublished' = unpublished \ {file[1]}
       ELSE UNCHANGED <<requests, published, unpublished>>
    /\ UNCHANGED <<pc, file, lastContent, note, applied, anyFailed,
                   finalStatus, triggerVars, detectVars, mainVars, previous, toolVars, prompt, jobs>>

Poll ==
    /\ watcher = "running"
    /\ Len(polls) < MaxPolls
    /\ Cardinality(requests) < MaxInFlight
    /\ polls' = Append(polls, file)
    /\ IF shouldPublish(file, lastContent)
       THEN /\ requests' = requests \cup
                    {[poll |-> Len(polls) + 1, body |-> file[1], state |-> "sent"]}
            /\ published' = Append(published, file[1])
            /\ unpublished' = unpublished \ {file[1]}
       ELSE UNCHANGED <<requests, published, unpublished>>
    /\ UNCHANGED <<pc, watcher, file, lastContent, note, applied, anyFailed,
                   finalStatus, triggerVars, detectVars, mainVars, previous, toolVars, prompt, jobs>>

(* api.ts updateComment -> MergeRequestNotes.edit / IssueNotes.edit: the host
   sets the body of the tracking note *)
HostApply(r) ==
    /\ r \in requests
    /\ r.state = "sent"
    /\ note' = r.body
    /\ applied' = Append(applied, [poll |-> r.poll, body |-> r.body])
    /\ requests' = (requests \ {r}) \cup {[r EXCEPT !.state = "applied"]}
    /\ UNCHANGED <<pc, watcher, file, lastContent, polls, published, anyFailed,
                   finalStatus, triggerVars, detectVars, mainVars, unpublished, previous, toolVars, prompt, jobs>>

(* comment-watcher.ts 635-636: the await returns, lastContent = content *)
PublishReturn(r) ==
    /\ watcher = "running"
    /\ r \in requests
    /\ r.state = "applied"
    /\ lastContent' = r.body
    /\ requests' = requests \ {r}
    /\ UNCHANGED <<pc, watcher, file, note, polls, published, applied, anyFailed,
                   finalStatus, triggerVars, detectVars, mainVars, unpublished, previous, toolVars, prompt, jobs>>

(* comment-watcher.ts 638-643: updateComment throws (transport error), the
   catch logs it; lastContent is not assigned *)
PublishFail(r) ==
    /\ r \in requests
    /\ r.state = "sent"
    /\ requests' = requests \ {r}
    /\ anyFailed' = TRUE
    /\ unpublished' = unpublished \cup {r.body}
    /\ UNCHANGED <<pc, watcher, file, lastContent, note, polls, published, applied,
                   finalStatus, triggerVars, detectVars, mainVars, previous, toolVars, prompt, jobs>>

(* main.ts 448-454: runClaude returns or throws *)
AgentExit(threw) ==
    /\ pc = "agent"
    /\ pc' = IF threw THEN "finallyThrow" ELSE "finallyOk"
    /\ error' = IF threw THEN Some("Claude execution failed") ELSE error
    /\ UNCHANGED <<watcher, file, lastContent, requests, note, polls, published,
                   applied, anyFailed, finalStatus, triggerVars, detectVars,
                   env, trackingComment, log, unpublished, previous, toolVars, prompt, jobs>>

(* main.ts 454-461: finally { execSync(`kill ${watcher}`) }.  The watcher
   process ends; requests it has sent stay with the host or the network. *)
KillWatcher_OnlyOnReturn ==
    /\ pc \in {"finallyOk", "finallyThrow"}
    /\ IF pc = "finallyOk"
       THEN /\ watcher' = "stopped"
            /\ requests' = {r \in requests : r.state = "sent"}
            /\ log' = Append(log, Event("kill", "", TRUE))
       ELSE UNCHANGED <<watcher, requests, log>>
    /\ pc' = IF pc = "finallyOk" THEN "success" ELSE "catch"
    /\ UNCHANGED <<file, lastContent, note, polls, published, applied, anyFailed,
                   finalStatus, triggerVars, detectVars, env, trackingComment, error, unpublished, previous, toolVars, prompt, jobs>>

KillWatcher ==
    /\ pc \in {"finallyOk", "finallyThrow"}
    /\ watcher' = "stopped"
    /\ requests' = {r \in requests : r.state = "sent"}
    /\ log' = Append(log, Event("kill", "", TRUE))
    /\ pc' = IF pc = "finallyOk" THEN "success" ELSE "catch"
    /\ UNCHANGED <<file, lastContent, note, polls, published, applied, anyFailed,
                   finalStatus, triggerVars, detectVars, env, trackingComment, error, unpublished, previous, toolVars, prompt, jobs>>

(* main.ts 463-546: git status / commit / push, then the final
   updateComment(createSuccessCommentBody(...)) and process.exit(0) *)
WriteSuccess ==
    /\ pc = "success"
    /\ note' = "success"
    /\ finalStatus' = "success"
    /\ log' = Append(log, NoteEvent("updateComment", trackingComment, "success", TRUE))
    /\ pc' = "exit0"
    /\ UNCHANGED <<watcher, file, lastContent, requests, polls, published, applied,
                   anyFailed, triggerVars, detectVars, env, trackingComment, error, unpublished, previous, toolVars, prompt, jobs>>

(* main.ts 463-490: git status / add / commit / push or createMergeRequest
   throws, before the final updateComment is called *)
SuccessPathThrows ==
    /\ pc = "success"
    /\ pc' = "catch"
    /\ error' = Some("Command failed: git push")
    /\ UNCHANGED <<watcher, file, lastContent, requests, note, polls, published,
                   applied, anyFailed, finalStatus, triggerVars, detectVars,
                   env, trackingComment, log, unpublished, previous, toolVars, prompt, jobs>>

(* main.ts 493-542: the final updateComment(createSuccessCommentBody(...))
   itself throws *)
SuccessWriteFails ==
    /\ pc = "success"
    /\ pc' = "catch"
    /\ error' = Some("Request timed out")
    /\ log' = Append(log, NoteEvent("updateComment", trackingComment, "success", FALSE))
    /\ UNCHANGED <<watcher, file, lastContent, requests, note, polls, published,
                   applied, anyFailed, finalStatus, triggerVars, detectVars,
                   env, trackingComment, unpublished, previous, toolVars, prompt, jobs>>

(* main.ts 548-576: catch: if (trackingComment && api && context)
   updateComment(createErrorCommentBody(...)), then process.exit(1) *)
WriteError_ExitsZero ==
    /\ pc = "catch"
    /\ trackingComment # None
    /\ note' = "error"
    /\ finalStatus' = "error"
    /\ log' = Append(log, NoteEvent("updateComment", trackingComment, "error", TRUE))
    /\ pc' = "exit0"
    /\ UNCHANGED <<watcher, file, lastContent, requests, polls, published, applied,
                   anyFailed, triggerVars, detectVars, env, trackingComment, error, unpublished, previous, toolVars, prompt, jobs>>

WriteError ==
    /\ pc = "catch"
    /\ trackingComment # None
    /\ note' = "error"
    /\ finalStatus' = "error"
    /\ log' = Append(log, NoteEvent("updateComment", trackingComment, "error", TRUE))
    /\ pc' = "exit1"
    /\ UNCHANGED <<watcher, file, lastContent, requests, polls, published, applied,
                   anyFailed, triggerVars, detectVars, env, trackingComment, error, unpublished, previous, toolVars, prompt, jobs>>

(* main.ts 571-573: the error update itself throws and is only logged *)
ErrorWriteFails_Unswallowed ==
    /\ pc = "catch"
    /\ trackingComment # None
    /\ log' = Append(log, NoteEvent("updateComment", trackingComment, "error", FALSE))
    /\ pc' = "unhandled"
    /\ UNCHANGED <<watcher, file, lastContent, requests, note, polls, published,
                   applied, anyFailed, finalStatus, triggerVars, detectVars,
                   env, trackingComment, error, unpublished, previous, toolVars, prompt, jobs>>

ErrorWriteFails ==
    /\ pc = "catch"
    /\ trackingComment # None
    /\ log' = Append(log, NoteEvent("updateComment", trackingComment, "error", FALSE))
    /\ pc' = "exit1"
    /\ UNCHANGED <<watcher, file, lastContent, requests, note, polls, published,
                   applied, anyFailed, finalStatus, triggerVars, detectVars,
                   env, trackingComment, error, unpublished, previous, toolVars, prompt, jobs>>

Next ==
    \/ StartWatcher
    \/ \E v \in AgentContents : AgentWrite(v)
    \/ Poll
    \/ \E r \in requests : HostApply(r)
    \/ \E r \in requests : PublishReturn(r)
    \/ \E r \in requests : PublishFail(r)
    \/ \E threw \in BOOLEAN : AgentExit(threw)
    \/ KillWatcher
    \/ WriteSuccess
    \/ SuccessPathThrows
    \/ SuccessWriteFails
    \/ WriteError
    \/ ErrorWriteFails

Spec == InitRelay /\ [][Next]_vars

(* the watcher, the agent and the host while runClaude is pending *)
NextRelay ==
    \/ StartWatcher
    \/ \E v \in AgentContents : AgentWrite(v)
    \/ Poll
    \/ \E r \in requests : HostApply(r)
    \/ \E r \in requests : PublishReturn(r)
    \/ \E r \in requests : PublishFail(r)

SpecRelay == InitRelay /\ [][NextRelay]_vars

-----------------------------------------------------------------------------
(* main.ts: main() from its entry.  The environment is any combination of
   the variables main() and parseGitLabContext read; the review unit on the
   host is one of a few small ones. *)
IidValues == {None, Some(<<"4", "2">>), Some(<<"x">>)}

Environments ==
    {[CI_MERGE_REQUEST_IID |-> m, CI_ISSUE_IID |-> i,
      GITLAB_TOKEN |-> g, CLAUDE_BOT_TOKEN |-> c, CI_JOB_TOKEN |-> j,
      CI_PROJECT_ID |-> p, ANTHROPIC_API_KEY |-> k, CLAUDE_TRIGGER_PHRASE |-> None,
      CLAUDE_COMMENT_ID |-> None,
      CI_MERGE_REQUEST_SOURCE_BRANCH_NAME |-> IF m = None THEN None ELSE Some(<<"f">>),
      CI_MERGE_REQUEST_TARGET_BRANCH_NAME |-> IF m = None THEN None ELSE Some(<<"m">>)] :
        m \in IidValues, i \in IidValues,
        g \in {None, Some(Token)}, c \in {None, Some(Token)}, j \in {None, Some(Token)},
        p \in {None, Some(<<"1">>)}, k \in {None, Some(<<"k">>)}}

MainUnits ==
    {WithIds(raw) : raw \in
        {<<>>,
         <<[notes |-> <<[author |-> Some(Alice), body |-> Some(TriggerBody)]>>,
            resolved |-> FALSE]>>,
         <<[notes |-> <<[author |-> Some(Alice), body |-> Some(TriggerBody)],
                        [author |-> Some(BotName), body |-> Some(PlainBody)]>>,
            resolved |-> FALSE]>>}}

(* `let context: ... | undefined` before parseGitLabContext has returned *)
UndefinedContext ==
    [isMR |-> FALSE, iid |-> None, token |-> <<>>, projectId |-> <<>>,
     triggerPhrase |-> <<>>, sourceBranch |-> None, targetBranch |-> None]

InitMain ==
    /\ prompt = None
    /\ jobs = <<>>
    /\ pc = "main"
    /\ env \in Environments
    /\ discussions \in MainUnits
    /\ entity \in {[assignee |-> None, assignees |-> <<>>, labels |-> l] :
                        l \in {<<>>, <<"claude">>}}
    /\ context = UndefinedContext
    /\ result = None
    /\ categorized = None
    /\ fault = None
    /\ raised = FALSE
    /\ trackingComment = None
    /\ error = None
    /\ log = <<>>
    /\ previous = None
    /\ ToolIdle
    /\ watcher = "none"
    /\ file = None
    /\ lastContent = ""
    /\ requests = {}
    /\ note = ""
    /\ polls = <<>>
    /\ published = <<>>
    /\ applied = <<>>
    /\ anyFailed = FALSE
    /\ finalStatus = ""
    /\ unpublished = {}
    /\ DetectIdle

relayState == <<watcher, file, lastContent, requests, polls, published, applied,
                anyFailed, finalStatus>>

(* main.ts 318-324: context = parseGitLabContext(); api = new GitLabAPI(...) *)
ParseContext ==
    /\ pc = "main"
    /\ LET out == parseGitLabContext(env)
       IN  IF out.threw
           THEN /\ pc' = "catch"
                /\ error' = Some(out.message)
                /\ UNCHANGED context
           ELSE /\ pc' = "check"
                /\ context' = out.value
                /\ UNCHANGED error
    /\ UNCHANGED <<discussions, entity, result, categorized, fault, raised,
                   env, trackingComment, log, note, relayState, detectVars, unpublished, previous, toolVars, prompt, jobs>>

(* main.ts 326-336: triggerCheck = await api.checkTrigger(context);
   if (!triggerCheck.shouldRun) process.exit(0) *)
RunCheckTrigger_IgnoresDecision ==
    /\ pc = "check"
    /\ \E f \in Faults :
          LET out == checkTriggerCatch(discussions, context, entity, f)
          IN  /\ fault' = f
              /\ raised' = out.threw
              /\ IF out.threw
                 THEN /\ pc' = "catch"
                      /\ error' = Some(out.message)
                      /\ UNCHANGED result
                 ELSE /\ pc' = "create"
                      /\ result' = Some(out.value)
                      /\ UNCHANGED error
    /\ UNCHANGED <<discussions, context, entity, categorized,
                   env, trackingComment, log, note, relayState, detectVars, unpublished, previous, toolVars, prompt, jobs>>

RunCheckTrigger ==
    /\ pc = "check"
    /\ \E f \in Faults :
          LET out == checkTriggerCatch(discussions, context, entity, f)
          IN  /\ fault' = f
              /\ raised' = out.threw
              /\ IF out.threw
                 THEN /\ pc' = "catch"
                      /\ error' = Some(out.message)
                      /\ UNCHANGED result
                 ELSE /\ pc' = IF out.value.shouldRun THEN "create" ELSE "exit0"
                      /\ result' = Some(out.value)
                      /\ UNCHANGED error
    /\ UNCHANGED <<discussions, context, entity, categorized,
                   env, trackingComment, log, note, relayState, detectVars, unpublished, previous, toolVars, prompt, jobs>>

(* main.ts 338-365: trackingComment = await api.createReply(...) when the
   check returned trigger comments of type 'comment', api.createComment(...)
   otherwise; either may throw *)
createOp(r) ==
    IF Len(r.triggerComments) > 0 /\ r.triggerType = Some("comment")
    THEN "createReply" ELSE "createComment"

(* api.ts 491-530: createComment and createReply both call
   MergeRequestNotes.create / IssueNotes.create(projectId, iid, body), which
   adds a note of its own to the review unit: the host puts it in a new
   discussion.  createReply only prefixes the body with
   `> In reply to discussion ${discussionId}`.  The author is the account
   the token belongs to. *)
TokenUser == BotName

InitialBody == <<"C", "l", "a", "u", "d", "e", " ", "C", "o", "d", "e">>

ReplyPrefix(discussionId) ==
    <<">", " ", "I", "n", " ", "r", "e", "p", "l", "y", " ">>
        \o toString(discussionId) \o <<" ">>

createdBody(r) ==
    IF createOp(r) = "createReply"
    THEN ReplyPrefix(r.triggerComments[1].discussionId) \o InitialBody
    ELSE InitialBody

nextNoteId(discs) ==
    TrackingId + Cardinality({d \in 1..Len(discs) : discs[d].notes[1].id >= TrackingId})

notesCreate(discs, body) ==
    Append(discs, [id |-> Len(discs) + 1, resolved |-> FALSE,
                   notes |-> <<[id |-> nextNoteId(discs), author |-> Some(TokenUser),
                                body |-> Some(body)]>>])

CreateTrackingComment_FailureIgnored(ok) ==
    /\ pc = "create"
    /\ log' = Append(log, NoteEvent(createOp(result[1]),
                                    IF ok THEN Some(nextNoteId(discussions)) ELSE None,
                                    "initial", ok))
    /\ pc' = "fetch"
    /\ IF ok
       THEN /\ trackingComment' = Some(nextNoteId(discussions))
            /\ note' = "initial"
            /\ discussions' = notesCreate(discussions, createdBody(result[1]))
       ELSE UNCHANGED <<trackingComment, note, discussions>>
    /\ UNCHANGED <<context, entity, result, categorized, fault, raised, error,
                   env, relayState, detectVars, unpublished, previous, toolVars, prompt, jobs>>

CreateTrackingComment(ok) ==
    /\ pc = "create"
    /\ log' = Append(log, NoteEvent(createOp(result[1]),
                                    IF ok THEN Some(nextNoteId(discussions)) ELSE None,
                                    "initial", ok))
    /\ IF ok
       THEN /\ pc' = "fetch"
            /\ trackingComment' = Some(nextNoteId(discussions))
            /\ note' = "initial"
            /\ discussions' = notesCreate(discussions, createdBody(result[1]))
            /\ UNCHANGED error
       ELSE /\ pc' = "catch"
            /\ error' = Some("Request timed out")
            /\ UNCHANGED <<trackingComment, note, discussions>>
    /\ UNCHANGED <<context, entity, result, categorized, fault, raised,
                   env, relayState, detectVars, unpublished, previous, toolVars, prompt, jobs>>

(* main.ts 367-377: data = await api.fetchData(context) *)
FetchData(ok) ==
    /\ pc = "fetch"
    /\ pc' = IF ok THEN "git" ELSE "catch"
    /\ error' = IF ok THEN error ELSE Some("Request timed out")
    /\ UNCHANGED <<triggerVars, env, trackingComment, log, note, relayState, detectVars, unpublished, previous, toolVars, prompt, jobs>>

(* main.ts 379-418: git config, branchExists / createBranch, git fetch and
   checkout, the prompt file *)
SetupGit(ok) ==
    /\ pc = "git"
    /\ pc' = IF ok THEN "validate" ELSE "catch"
    /\ error' = IF ok THEN error ELSE Some("Command failed: git checkout")
    /\ UNCHANGED <<triggerVars, env, trackingComment, log, note, relayState, detectVars, unpublished, previous, toolVars, prompt, jobs>>

(* main.ts 420-433: validateEnvironmentVariables() rethrown with a prefix,
   then process.env.CLAUDE_COMMENT_ID = trackingComment.id.toString(),
   process.env.GITLAB_TOKEN = context.token and the other variables handed
   to the watcher *)
ValidateEnvironment ==
    /\ pc = "validate"
    /\ LET out == validateEnvironmentVariables(env)
       IN  IF out.threw
           THEN /\ pc' = "catch"
                /\ error' = Some("Environment validation failed: Error: " \o out.message)
                /\ UNCHANGED env
           ELSE /\ pc' = "start"
                /\ env' = [env EXCEPT !.CLAUDE_COMMENT_ID = Some(toString(trackingComment[1])),
                                       !.GITLAB_TOKEN = Some(context.token)]
                /\ UNCHANGED error
    /\ UNCHANGED <<triggerVars, trackingComment, log, note, relayState, detectVars, unpublished, previous, toolVars, prompt, jobs>>

(* main.ts 557-576: trackingComment is undefined, nothing is written;
   process.exit(1) *)
ExitWithoutComment ==
    /\ pc = "catch"
    /\ trackingComment = None
    /\ pc' = "exit1"
    /\ UNCHANGED <<triggerVars, mainVars, note, relayState, detectVars, unpublished, previous, toolVars, prompt, jobs>>

(* runClaude's timeout (timeoutMinutes) expires: the agent is stopped and the
   promise main() awaits rejects *)
AgentTimeout ==
    /\ pc = "agent"
    /\ pc' = "finallyThrow"
    /\ error' = Some("Claude process timed out")
    /\ UNCHANGED <<triggerVars, env, trackingComment, log, note, relayState, detectVars, unpublished, previous, toolVars, prompt, jobs>>

(* the process main() runs in is interrupted: main.ts installs no signal
   handler, so main() ends where it is.  The watcher, started with nohup in
   the background, ends only if the signal is sent to it too (its SIGINT
   handler, comment-watcher.ts 651-654). *)
Interrupt(alsoWatcher) ==
    /\ pc \notin {"exit0", "exit1", "interrupted"}
    /\ pc' = "interrupted"
    /\ watcher' = IF alsoWatcher /\ watcher = "running" THEN "stopped" ELSE watcher
    /\ UNCHANGED <<triggerVars, mainVars, note, file, lastContent, requests, polls,
                   published, applied, anyFailed, finalStatus, detectVars, unpublished, previous, toolVars, prompt, jobs>>

NextMain ==
    \/ ParseContext
    \/ RunCheckTrigger
    \/ \E ok \in BOOLEAN : CreateTrackingComment(ok)
    \/ \E ok \in BOOLEAN : FetchData(ok)
    \/ \E ok \in BOOLEAN : SetupGit(ok)
    \/ ValidateEnvironment
    \/ StartWatcher
    \/ \E threw \in BOOLEAN : AgentExit(threw)
    \/ AgentTimeout
    \/ KillWatcher
    \/ WriteSuccess
    \/ SuccessPathThrows
    \/ SuccessWriteFails
    \/ WriteError
    \/ ErrorWriteFails
    \/ ExitWithoutComment
    \/ \E alsoWatcher \in BOOLEAN : Interrupt(alsoWatcher)

SpecMain == InitMain /\ [][NextMain]_vars

-----------------------------------------------------------------------------
(* context.ts parseGitLabContext on environments whose three token variables
   hold different values.  The host sets the merge request branch variables
   together with CI_MERGE_REQUEST_IID. *)
ContextEnvironments ==
    {[CI_MERGE_REQUEST_IID |-> m, CI_ISSUE_IID |-> i,
      GITLAB_TOKEN |-> g, CLAUDE_BOT_TOKEN |-> c, CI_JOB_TOKEN |-> j,
      CI_PROJECT_ID |-> p, ANTHROPIC_API_KEY |-> Some(<<"k">>),
      CLAUDE_TRIGGER_PHRASE |-> None, CLAUDE_COMMENT_ID |-> None,
      CI_MERGE_REQUEST_SOURCE_BRANCH_NAME |-> IF m = None THEN None ELSE Some(<<"f">>),
      CI_MERGE_REQUEST_TARGET_BRANCH_NAME |-> IF m = None THEN None ELSE Some(<<"m">>)] :
        m \in {None, Some(<<"4", "2">>)}, i \in {None, Some(<<"7">>)},
        g \in {None, Some(<<>>), Some(<<"g">>)}, c \in {None, Some(<<"c">>)},
        j \in {None, Some(<<"j">>)}, p \in {None, Some(<<"1">>)}}

InitContext ==
    /\ prompt = None
    /\ jobs = <<>>
    /\ pc = "main"
    /\ env \in ContextEnvironments
    /\ discussions = <<>>
    /\ entity = [assignee |-> None, assignees |-> <<>>, labels |-> <<>>]
    /\ context = UndefinedContext
    /\ result = None
    /\ categorized = None
    /\ fault = None
    /\ raised = FALSE
    /\ trackingComment = None
    /\ error = None
    /\ log = <<>>
    /\ previous = None
    /\ ToolIdle
    /\ watcher = "none"
    /\ file = None
    /\ lastContent = ""
    /\ requests = {}
    /\ note = ""
    /\ polls = <<>>
    /\ published = <<>>
    /\ applied = <<>>
    /\ anyFailed = FALSE
    /\ finalStatus = ""
    /\ unpublished = {}
    /\ DetectIdle

NextContext == ParseContext

SpecContext == InitContext /\ [][NextContext]_vars

-----------------------------------------------------------------------------
(* gitlab-comment-server.ts: the MCP server the agent calls
   update_claude_comment on.  It has passed its start-up check of
   GITLAB_TOKEN, GITLAB_PROJECT_ID, CLAUDE_COMMENT_ID and GITLAB_IID (16-21);
   the tracking note exists with its initial body. *)
MaxCalls == 3           \* update_claude_comment calls

ToolBodies == {"A", "B", "AB"}

InitTool ==
    /\ prompt = None
    /\ jobs = <<>>
    /\ server = "running"
    /\ toolResult = None
    /\ toolCalls = <<>>
    /\ pc = "agent"
    /\ watcher = "none"
    /\ file = None
    /\ lastContent = ""
    /\ requests = {}
    /\ note = "initial"
    /\ polls = <<>>
    /\ published = <<>>
    /\ applied = <<>>
    /\ anyFailed = FALSE
    /\ finalStatus = ""
    /\ unpublished = {}
    /\ env = [PassingEnv EXCEPT !.CLAUDE_COMMENT_ID = Some(toString(TrackingId))]
    /\ trackingComment = Some(TrackingId)
    /\ error = None
    /\ log = <<NoteEvent("createComment", Some(TrackingId), "initial", TRUE)>>
    /\ previous = None
    /\ TriggerIdle
    /\ DetectIdle

(* api.ts 535-551: Notes.edit(projectId, iid, noteId, body) sets the body of
   note noteId *)
notesEdit(current, noteId, body) ==
    IF noteId = Some(TrackingId) THEN body ELSE current

(* gitlab-comment-server.ts 34-73: the tool handler; ok is whether
   api.updateComment returned or threw *)
SuccessResult(noteId) == [isError |-> FALSE, success |-> TRUE, commentId |-> noteId, text |-> ""]

ErrorResult(message) ==
    [isError |-> TRUE, success |-> FALSE, commentId |-> None, text |-> "Error: " \o message]

UpdateClaudeComment_Appends(body, ok) ==
    /\ server = "running"
    /\ Len(toolCalls) < MaxCalls
    /\ toolCalls' = Append(toolCalls, [body |-> body, ok |-> ok])
    /\ LET noteId == parseInt(env.CLAUDE_COMMENT_ID[1])
       IN  IF ok
           THEN /\ note' = notesEdit(note, noteId, note \o body)
                /\ toolResult' = Some(SuccessResult(noteId))
           ELSE /\ note' = note
                /\ toolResult' = Some(ErrorResult("Request timed out"))
    /\ server' = server
    /\ UNCHANGED <<pc, watcher, file, lastContent, requests, polls, published, applied,
                   anyFailed, finalStatus, unpublished, triggerVars, detectVars,
                   mainVars, previous, prompt, jobs>>

UpdateClaudeComment(body, ok) ==
    /\ server = "running"
    /\ Len(toolCalls) < MaxCalls
    /\ toolCalls' = Append(toolCalls, [body |-> body, ok |-> ok])
    /\ LET noteId == parseInt(env.CLAUDE_COMMENT_ID[1])
       IN  IF ok
           THEN /\ note' = notesEdit(note, noteId, body)
                /\ toolResult' = Some(SuccessResult(noteId))
           ELSE /\ note' = note
                /\ toolResult' = Some(ErrorResult("Request timed out"))
    /\ server' = server
    /\ UNCHANGED <<pc, watcher, file, lastContent, requests, polls, published, applied,
                   anyFailed, finalStatus, unpublished, triggerVars, detectVars,
                   mainVars, previous, prompt, jobs>>

(* gitlab-comment-server.ts 85-93: SIGINT / SIGTERM close the server *)
StopServer ==
    /\ server = "running"
    /\ server' = "exited"
    /\ UNCHANGED <<toolResult, toolCalls, relayVars, unpublished, triggerVars,
                   detectVars, mainVars, previous, prompt, jobs>>

NextTool ==
    \/ \E body \in ToolBodies, ok \in BOOLEAN : UpdateClaudeComment(body, ok)
    \/ StopServer

SpecTool == InitTool /\ [][NextTool]_vars

-----------------------------------------------------------------------------
(* Two invocations on the same review unit.  The pipeline job that runs
   main() has ended; the next job starts main() again with the CI/CD
   variables of the project, a fresh process and a fresh /tmp, on the review
   unit as the first invocation left it.  No note is added in between. *)
InitRepeat == InitMain /\ env = PassingEnv

Reinvoke ==
    /\ pc \in {"exit0", "exit1"}
    /\ previous = None
    /\ previous' = Some([triggerType |-> IF result = None THEN None
                                         ELSE result[1].triggerType,
                         completed |-> finalStatus = "success"])
    /\ pc' = "main"
    /\ env' = PassingEnv
    /\ context' = UndefinedContext
    /\ result' = None
    /\ fault' = None
    /\ raised' = FALSE
    /\ trackingComment' = None
    /\ error' = None
    /\ log' = <<>>
    /\ watcher' = "none"
    /\ file' = None
    /\ lastContent' = ""
    /\ requests' = {}
    /\ note' = ""
    /\ polls' = <<>>
    /\ published' = <<>>
    /\ applied' = <<>>
    /\ anyFailed' = FALSE
    /\ finalStatus' = ""
    /\ unpublished' = {}
    /\ UNCHANGED <<discussions, entity, categorized, detectVars, toolVars, prompt, jobs>>

NextRepeat ==
    \/ NextMain
    \/ Reinvoke

SpecRepeat == InitRepeat /\ [][NextRepeat]_vars

-----------------------------------------------------------------------------
(* Vocabulary of the properties, stated on the fetched discussions *)
LetterPairs == {{UpperCase[i], LowerCase[i]} : i \in 1..Len(UpperCase)}

SameLetter(c, d) == c = d \/ {c, d} \in LetterPairs

OccursIgnoringCase(p, t) ==
    \E off \in 0..(Len(t) - Len(p)) : \A j \in 1..Len(p) : SameLetter(t[off + j], p[j])

Positions ==
    UNION {{<<k, j>> : j \in 1..Len(discussions[k].notes)} : k \in 1..Len(discussions)}

NoteAt(q) == discussions[q[1]].notes[q[2]]

AgentAuthored(n) == n.author # None /\ claudeBotPattern(n.author[1])

HasPhrase(n) ==
    n.body # None /\ n.body[1] # <<>> /\ OccursIgnoringCase(context.triggerPhrase, n.body[1])

Answered(k) == \E j \in 1..Len(discussions[k].notes) : AgentAuthored(discussions[k].notes[j])

TriggerPositions == {q \in Positions : HasPhrase(NoteAt(q))}

UnansweredTriggers == {q \in TriggerPositions : ~Answered(q[1])}

BotAccountAssigned ==
    \/ entity.assignee = Some(BotName)
    \/ \E i \in 1..Len(entity.assignees) : entity.assignees[i] = BotName

LabelPresent == "claude" \in {entity.labels[i] : i \in 1..Len(entity.labels)}

-----------------------------------------------------------------------------
\* C1: duplicate suppression.  Whenever at least one trigger note exists and
\* the discussion of every trigger note holds an agent-authored note,
\* checkTrigger returns shouldRun = false, hasExistingResponse = true and no
\* new triggers, whatever the assignees and labels are.
C1_DuplicateSuppression ==
    (result # None /\ TriggerPositions # {} /\ UnansweredTriggers = {})
        => /\ result[1].shouldRun = FALSE
           /\ result[1].hasExistingResponse = TRUE
           /\ result[1].triggerComments = <<>>

C1_Witness ==
    /\ result # None
    /\ TriggerPositions # {}
    /\ UnansweredTriggers = {}
    /\ context.isMR /\ BotAccountAssigned /\ LabelPresent
    /\ result[1].shouldRun = FALSE

\* C3: the new triggers checkTrigger returns are exactly the trigger notes
\* whose own discussion holds no agent-authored note, each once and with the
\* id of its own discussion; an agent reply in another discussion suppresses
\* nothing, and an unanswered trigger makes shouldRun true.
C3_DiscussionScoped ==
    result # None =>
        LET got == result[1].triggerComments
        IN  /\ {<<got[i].discussionId, got[i].note.id>> : i \in 1..Len(got)}
                 = {<<discussions[q[1]].id, NoteAt(q).id>> : q \in UnansweredTriggers}
            /\ Len(got) = Cardinality(UnansweredTriggers)
            /\ (UnansweredTriggers # {} => result[1].shouldRun)

C3_Witness ==
    /\ result # None
    /\ \E q \in TriggerPositions : Answered(q[1])
    /\ \E q \in UnansweredTriggers :
          /\ Len(result[1].triggerComments) = 1
          /\ result[1].triggerComments[1].note.id = NoteAt(q).id
    /\ result[1].shouldRun

\* C4: strict priority.  The result is that of the first rule that matches,
\* in the order: new comment trigger, all triggers answered, assignment of the
\* bot account (merge request only), label, none.  So answered triggers stop
\* the run even with the bot assigned or the label present, and assignment
\* wins over the label.
C4_StrictPriority ==
    result # None =>
        LET r == result[1]
        IN  IF UnansweredTriggers # {}
                THEN r.shouldRun /\ r.triggerType = Some("comment")
            ELSE IF TriggerPositions # {}
                THEN ~r.shouldRun
            ELSE IF context.isMR /\ BotAccountAssigned
                THEN r.shouldRun /\ r.triggerType = Some("assignment")
            ELSE IF LabelPresent
                THEN r.shouldRun /\ r.triggerType = Some("label")
            ELSE ~r.shouldRun /\ r.triggerType = None

C4_Witness ==
    /\ result # None
    /\ TriggerPositions = {}
    /\ context.isMR /\ BotAccountAssigned /\ LabelPresent
    /\ result[1].triggerType = Some("assignment")

\* C5: whenever an unanswered trigger note exists, checkTrigger returns
\* shouldRun = true, kind 'comment' and a reason that names the number of
\* unanswered triggers, whatever the assignees and labels are.
C5_NewTriggersRun ==
    (result # None /\ UnansweredTriggers # {})
        => /\ result[1].shouldRun
           /\ result[1].triggerType = Some("comment")
           /\ result[1].reason =
                "Found " \o ToString(Cardinality(UnansweredTriggers))
                         \o " new trigger comment(s) without Claude replies"

C5_Witness ==
    /\ result # None
    /\ Cardinality(UnansweredTriggers) = 1
    /\ Cardinality(TriggerPositions) = 2
    /\ LabelPresent
    /\ result[1].shouldRun /\ result[1].triggerType = Some("comment")

\* C6: isValidTrigger returns true exactly when the phrase occurs in the body
\* as a substring up to letter case, at any offset (no word boundary); the
\* documented bodies give true for "Hey @CLAUDE can you help?" and false for
\* "No trigger here" with the phrase "@claude".
C6_CaseInsensitiveSubstring ==
    detected # None =>
        /\ detected[1] = OccursIgnoringCase(phrase, text)
        /\ (text = TriggerBody /\ phrase = AtClaude => detected[1] = TRUE)
        /\ (text = PlainBody /\ phrase = AtClaude => detected[1] = FALSE)

C6_Witness ==
    /\ detected = Some(TRUE)
    /\ phrase = <<"@", "c">>
    /\ text = <<"x", "@", "C">>

\* C7: partition.  Every note not authored by the agent is an element of
\* exactly one of triggerComments, contextComments, resolvedComments, exactly
\* once, and these three hold nothing but the non-agent notes.
C7_Partition ==
    categorized # None =>
        LET c == categorized[1]
            three == c.triggerComments \o c.contextComments \o c.resolvedComments
        IN  /\ \A q \in Positions :
                  ~AgentAuthored(NoteAt(q)) =>
                      Cardinality({i \in 1..Len(three) : three[i] = NoteAt(q)}) = 1
            /\ \A i \in 1..Len(three) :
                  \E q \in Positions : NoteAt(q) = three[i] /\ ~AgentAuthored(three[i])

C7_Witness ==
    /\ categorized # None
    /\ Len(categorized[1].triggerComments) = 1
    /\ Len(categorized[1].resolvedComments) = 1
    /\ Len(categorized[1].contextComments) = 1
    /\ \E k \in 1..Len(discussions) : discussions[k].resolved /\
          \E j \in 1..Len(discussions[k].notes) : HasPhrase(discussions[k].notes[j])

-----------------------------------------------------------------------------
(* Vocabulary of the relay properties *)
NoRepeat(seq) == \A i \in 1..(Len(seq) - 1) : seq[i] # seq[i + 1]

\* C2: final-write-last.  Once main() has written its final status to the
\* tracking note, the body of the note is that status: no write of the relay
\* lands on the note afterwards.
C2_FinalWriteLast == finalStatus # "" => note = finalStatus

\* C8: relay change detection.  With no failed publication, no two
\* consecutive publish events carry the same payload, and four polls that
\* read "", "A", "A", "B" give exactly the publish events "A", "B".
C8_ChangeDetection ==
    ~anyFailed =>
        /\ NoRepeat(published)
        /\ (polls = <<Some(""), Some("A"), Some("A"), Some("B")>>
                => published = <<"A", "B">>)

\* C9: the content a poll publishes is recorded as last published before the
\* next poll reads the channel: a poll that fires while a publication is
\* outstanding does not publish the same content again, so no two successive
\* polls have outstanding publications of the same content.
C9_RecordedBeforeNextRead ==
    \A r1 \in requests : \A r2 \in requests :
        (r2.poll = r1.poll + 1) => r2.body # r1.body

\* C10: relay ordering.  The host applies the relay's distinct contents in
\* the order of the polls that observed them: a value of an earlier poll is
\* never applied after a different value of a later poll.
C10_OrderPreserved ==
    \A i \in 1..Len(applied) : \A j \in 1..Len(applied) :
        (i < j /\ applied[i].body # applied[j].body) => applied[i].poll < applied[j].poll

-----------------------------------------------------------------------------
(* Vocabulary of the properties of main() *)
Ops(name) == {i \in 1..Len(log) : log[i].op = name}

Launched == Ops("runClaude") # {}

Exited == pc \in {"exit0", "exit1"}

LastIs(name, arg) ==
    log # <<>> /\ log[Len(log)].op = name /\ log[Len(log)].arg = arg

C12_InterruptStopsRelay == pc = "interrupted" => watcher # "running"

-----------------------------------------------------------------------------
(* Vocabulary of the trigger check with failing host calls: the first call
   fetches the discussions; the second fetches the review unit when no note
   holds the phrase; a third fetches a merge request again when the bot
   account is not assigned *)
CallMade(c) ==
    \/ c = 1
    \/ /\ TriggerPositions = {}
       /\ \/ c = 2
          \/ c = 3 /\ context.isMR /\ ~BotAccountAssigned

ErrorPrefixes ==
    {"Error checking trigger: " \o n \o ": " : n \in {"Error", "HTTPError"}}

\* C13: checkTrigger never throws; when one of the host calls it makes fails,
\* it returns shouldRun = false, a reason that ends with the message of the
\* error, no trigger comments and hasExistingResponse = false.
C13_NeverRaises ==
    /\ ~raised
    /\ (result # None /\ fault # None /\ CallMade(fault[1].call)) =>
          /\ result[1].shouldRun = FALSE
          /\ result[1].reason \in {pre \o fault[1].message : pre \in ErrorPrefixes}
          /\ result[1].triggerComments = <<>>
          /\ result[1].hasExistingResponse = FALSE

C13_Witness ==
    /\ result # None
    /\ fault # None /\ fault[1].call = 3 /\ CallMade(3)
    /\ LabelPresent
    /\ result[1].shouldRun = FALSE
    /\ result[1].reason = "Error checking trigger: HTTPError: Response code 404 (Not Found)"

-----------------------------------------------------------------------------
(* Vocabulary of the error properties of main() *)
HostWrites == Ops("createReply") \cup Ops("createComment") \cup Ops("updateComment")

ParseErrors == {NoTokenMessage, NoProjectMessage, NoIidMessage}

ValidationErrors ==
    {"Environment validation failed: Error: ANTHROPIC_API_KEY is required",
     "Environment validation failed: Error: GITLAB_TOKEN or CLAUDE_BOT_TOKEN is required"}

ConfigurationError == error # None /\ error[1] \in ParseErrors \cup ValidationErrors

\* C14: once checkTrigger has returned shouldRun = false, for any cause, the
\* process has exited with code 0 and has created or edited no note, started
\* no watcher and launched no agent.
C14_NoRunNoEffect ==
    (result # None /\ ~result[1].shouldRun) =>
        /\ pc = "exit0"
        /\ HostWrites = {} /\ note = "" /\ trackingComment = None
        /\ watcher = "none" /\ Ops("startWatcher") = {}
        /\ ~Launched

C14_Witness ==
    /\ pc = "exit0"
    /\ fault # None
    /\ UnansweredTriggers # {}
    /\ result # None /\ ~result[1].shouldRun
    /\ log = <<>>

\* C15: when main() has finished after an error that was raised once the
\* tracking note existed, the last thing it did was to issue an edit of the
\* tracking note with the error status, whether or not that edit succeeded,
\* and it has exited with code 1.
C15_ErrorReflected ==
    (error # None /\ trackingComment # None
        /\ pc \notin {"finallyThrow", "catch", "interrupted"}) =>
            /\ pc = "exit1"
            /\ LastIs("updateComment", "error")
            /\ (log[Len(log)].ok => note = "error")

C15_Witness ==
    /\ pc = "exit1"
    /\ Len(log) >= 2
    /\ log[Len(log) - 1] = NoteEvent("updateComment", trackingComment, "success", FALSE)
    /\ log[Len(log)] = NoteEvent("updateComment", trackingComment, "error", FALSE)

\* C16 as claimed: exit code 0 only after a do-not-run decision or a
\* completed run, exit code 1 only for an error raised after the trigger
\* check has run.
C16_ExitCodes ==
    /\ pc = "exit0" => \/ result # None /\ ~result[1].shouldRun
                       \/ finalStatus = "success"
    /\ pc = "exit1" => error # None /\ result # None

\* C16, amended: exit code 0 only after a do-not-run decision or a completed
\* run; exit code 1 only for an error, which is either a configuration error
\* thrown by parseGitLabContext before the trigger check, or an error raised
\* after a trigger check that said to run.
C16_ExitCodesAmended ==
    /\ pc = "exit0" => \/ result # None /\ ~result[1].shouldRun /\ error = None
                       \/ finalStatus = "success" /\ error = None
    /\ pc = "exit1" =>
          /\ error # None
          /\ \/ result = None /\ error[1] \in ParseErrors
             \/ result # None /\ result[1].shouldRun

C16_Witness ==
    /\ pc = "exit1"
    /\ result = None
    /\ error = Some(NoTokenMessage)

\* C17: a run that ends with a configuration error has created and edited
\* no note.
C17_ConfigErrorsBeforeWrites ==
    (pc = "exit1" /\ ConfigurationError) => HostWrites = {} /\ note = ""

\* C18: with neither CI_MERGE_REQUEST_IID nor CI_ISSUE_IID set,
\* parseGitLabContext throws, so main() never gets past it.
C18_MissingIidFatal ==
    (~truthy(env.CI_MERGE_REQUEST_IID) /\ ~truthy(env.CI_ISSUE_IID)) =>
        /\ pc \in {"main", "catch", "exit1", "interrupted"}
        /\ context = UndefinedContext

-----------------------------------------------------------------------------
(* Vocabulary of the classifier properties *)
In(n, seq) == \E i \in 1..Len(seq) : seq[i] = n

Times(n, seq) == Cardinality({i \in 1..Len(seq) : seq[i] = n})

\* C19: classification order.  A non-agent note that holds the phrase is in
\* triggerComments, also when its discussion is resolved, and never in
\* resolvedComments; a non-agent note without the phrase is in
\* resolvedComments exactly when its discussion is resolved and in
\* contextComments exactly when it is not.
C19_TriggerBeforeResolved ==
    categorized # None =>
        LET c == categorized[1]
        IN  \A q \in Positions :
                LET n == NoteAt(q)
                    isResolved == discussions[q[1]].resolved
                IN  ~AgentAuthored(n) =>
                        IF HasPhrase(n)
                        THEN /\ In(n, c.triggerComments)
                             /\ ~In(n, c.resolvedComments)
                             /\ ~In(n, c.contextComments)
                        ELSE /\ ~In(n, c.triggerComments)
                             /\ In(n, c.resolvedComments) <=> isResolved
                             /\ In(n, c.contextComments) <=> ~isResolved

C19_Witness ==
    /\ categorized # None
    /\ categorized[1].resolvedComments = <<>>
    /\ \E q \in Positions :
          /\ discussions[q[1]].resolved
          /\ ~AgentAuthored(NoteAt(q)) /\ HasPhrase(NoteAt(q))
          /\ In(NoteAt(q), categorized[1].triggerComments)

\* C20: every agent-authored note, in resolved and unresolved discussions,
\* with or without the phrase in its body, is in claudeReplies exactly once
\* and in no other category, and claudeReplies holds nothing else; a review
\* unit that is one discussion of one agent-authored note gives one entry in
\* claudeReplies and none in the other three.
C20_AgentRepliesOnly ==
    categorized # None =>
        LET c == categorized[1]
            agentNotes == {q \in Positions : AgentAuthored(NoteAt(q))}
        IN  /\ \A q \in agentNotes :
                  /\ Times(NoteAt(q), c.claudeReplies) = 1
                  /\ ~In(NoteAt(q), c.triggerComments)
                  /\ ~In(NoteAt(q), c.contextComments)
                  /\ ~In(NoteAt(q), c.resolvedComments)
            /\ Len(c.claudeReplies) = Cardinality(agentNotes)
            /\ (Cardinality(Positions) = 1 /\ Cardinality(agentNotes) = 1) =>
                  /\ Len(c.claudeReplies) = 1
                  /\ c.triggerComments = <<>>
                  /\ c.contextComments = <<>>
                  /\ c.resolvedComments = <<>>

C20_Witness ==
    /\ categorized # None
    /\ Len(discussions) = 1 /\ Len(discussions[1].notes) = 1
    /\ discussions[1].resolved
    /\ AgentAuthored(discussions[1].notes[1]) /\ HasPhrase(discussions[1].notes[1])
    /\ categorized[1].claudeReplies = <<discussions[1].notes[1]>>
    /\ categorized[1].triggerComments = <<>>

-----------------------------------------------------------------------------
(* Vocabulary of the properties on malformed notes *)
NoAuthor(n) == n.author = None

NoBody(n) == n.body = None \/ n.body[1] = <<>>

C22_AssignmentMergeRequestOnly ==
    (result # None /\ TriggerPositions = {}) =>
        LET r == result[1]
        IN  /\ (r.triggerType = Some("assignment")) <=> (context.isMR /\ BotAccountAssigned)
            /\ r.triggerType = Some("assignment") => r.shouldRun
            /\ ~context.isMR =>
                  /\ r.shouldRun <=> LabelPresent
                  /\ r.triggerType = IF LabelPresent THEN Some("label") ELSE None

C22_Witness ==
    /\ result # None
    /\ TriggerPositions = {}
    /\ ~context.isMR /\ BotAccountAssigned /\ ~LabelPresent
    /\ result[1].shouldRun = FALSE

\* C23: label rule.  With no trigger note and no assignment of the bot
\* account to a merge request, checkTrigger returns shouldRun = true with
\* kind 'label' exactly when the review unit carries the label "claude",
\* and otherwise shouldRun = false, no kind, no trigger comments and
\* hasExistingResponse = false.
C23_LabelRule ==
    (result # None /\ TriggerPositions = {} /\ ~(context.isMR /\ BotAccountAssigned)) =>
        LET r == result[1]
        IN  IF LabelPresent
            THEN r.shouldRun /\ r.triggerType = Some("label")
            ELSE /\ ~r.shouldRun
                 /\ r.triggerType = None
                 /\ r.triggerComments = <<>>
                 /\ r.hasExistingResponse = FALSE

C23_Witness ==
    /\ result # None
    /\ TriggerPositions = {}
    /\ ~context.isMR
    /\ LabelPresent /\ entity.labels[1] # "claude"
    /\ result[1].shouldRun /\ result[1].triggerType = Some("label")

-----------------------------------------------------------------------------
(* Vocabulary of the properties on single steps of the watcher *)
PollStep == polls' # polls

FailStep == \E r \in requests : r.state = "sent" /\ requests' = requests \ {r}

\* C24: a poll that finds the progress channel missing or unreadable (the
\* read throws) is "no update yet": that poll sends no updateComment request,
\* leaves lastContent and the tracking note as they are, and the watcher is
\* still running after it.
C24_MissingChannelNoUpdate ==
    [][(PollStep /\ file = None) =>
          /\ published' = published
          /\ requests' = requests
          /\ lastContent' = lastContent
          /\ note' = note
          /\ watcher' = "running"]_vars

C24_Witness ==
    /\ Len(polls) >= 2
    /\ polls[1] = None
    /\ polls[2] # None
    /\ published # <<>>
    /\ watcher = "running"

\* C25: a failed publish never stops the relay.  The step in which an
\* updateComment call of the watcher throws leaves the watcher running and
\* lastContent unchanged, and the next poll that reads the content whose
\* publication failed publishes that content again.
C25_FailedPublishRetried ==
    [][/\ FailStep => (watcher' = watcher /\ lastContent' = lastContent)
       /\ (PollStep /\ file # None /\ file[1] \in unpublished) =>
              published' = Append(published, file[1])]_vars

-----------------------------------------------------------------------------
(* Vocabulary of the properties on the tracking note *)
Creates == Ops("createReply") \cup Ops("createComment")

Created == {i \in Creates : log[i].ok}

\* C26: one tracking note per invocation.  An invocation whose trigger check
\* said not to run creates no note; main() calls createReply / createComment
\* at most once, and trackingComment is the id that call returned; the
\* watcher is started only after that call returned and is handed that id
\* (through toString and parseInt); every write after it is an updateComment
\* of that id; when the create call throws, main() starts neither the
\* watcher nor the agent, writes nothing more and ends with exit code 1.
C26_OneTrackingNote ==
    /\ Cardinality(Creates) <= 1
    /\ (result # None /\ ~result[1].shouldRun) => Creates = {}
    /\ pc \in {"fetch", "git", "validate", "start", "agent", "finallyOk",
                "finallyThrow", "success"} => Cardinality(Created) = 1
    /\ trackingComment # None <=> Created # {}
    /\ \A i \in Created : log[i].id = trackingComment
    /\ \A i \in Ops("startWatcher") :
          /\ \E j \in Created : j < i
          /\ log[i].id = trackingComment
    /\ \A i \in Ops("updateComment") :
          /\ \E j \in Created : j < i
          /\ log[i].id = trackingComment
    /\ \A j \in Creates : \A i \in (j + 1)..Len(log) : i \notin Creates
    /\ (Creates # {} /\ Created = {}) =>
          /\ pc \in {"catch", "exit1", "interrupted"}
          /\ watcher = "none" /\ ~Launched
          /\ Ops("updateComment") = {}
          /\ note = ""

C26_Witness ==
    /\ pc = "exit0"
    /\ Cardinality(Created) = 1
    /\ Ops("startWatcher") # {}
    /\ LastIs("updateComment", "success")
    /\ log[Len(log)].id = Some(TrackingId)

\* C27: for a comment trigger the tracking note is a reply inside the
\* discussion of the first new trigger note: once createReply has returned,
\* the discussion whose id is triggerComments[0].discussionId holds a note
\* authored by the agent.
C27_ReplyInTriggerDiscussion ==
    (\E i \in Ops("createReply") : log[i].ok) =>
        \E d \in 1..Len(discussions) :
            /\ discussions[d].id = result[1].triggerComments[1].discussionId
            /\ \E k \in 1..Len(discussions[d].notes) :
                    AgentAuthored(discussions[d].notes[k])

\* C28: no duplicate response across invocations.  When the invocation
\* before this one ran for a comment trigger and completed, and no note was
\* added since, the trigger check of this invocation returns
\* shouldRun = false.
C28_NoDuplicateResponse ==
    (/\ previous # None
     /\ previous[1].triggerType = Some("comment")
     /\ previous[1].completed
     /\ result # None) => ~result[1].shouldRun

-----------------------------------------------------------------------------
(* Vocabulary of the properties on the update_claude_comment tool *)
AppliedCalls == {i \in 1..Len(toolCalls) : toolCalls[i].ok}

LastApplied == CHOOSE i \in AppliedCalls : \A j \in AppliedCalls : j <= i

CallStep == toolCalls' # toolCalls

\* C29: update_claude_comment replaces and reports failures as values.
\* After any sequence of calls the body of the tracking note is exactly the
\* text of the last call whose edit was applied (the initial body when none
\* was); a call whose edit fails leaves the body as it was and returns a
\* result with isError = true, a call whose edit is applied returns a
\* result without it; and no call ends the server process.
C29_ReplaceAndReport ==
    /\ [](/\ note = IF AppliedCalls = {} THEN "initial" ELSE toolCalls[LastApplied].body
          /\ toolCalls # <<>> =>
                /\ toolResult # None
                /\ toolResult[1].isError = ~toolCalls[Len(toolCalls)].ok
                /\ toolResult[1].success = toolCalls[Len(toolCalls)].ok)
    /\ [][CallStep =>
            /\ server' = "running"
            /\ ~toolCalls'[Len(toolCalls')].ok => note' = note]_vars

C29_Witness ==
    /\ Len(toolCalls) = 3
    /\ toolCalls[1] = [body |-> "A", ok |-> TRUE]
    /\ toolCalls[2] = [body |-> "B", ok |-> TRUE]
    /\ toolCalls[3] = [body |-> "A", ok |-> FALSE]
    /\ note = "B"
    /\ toolResult[1].isError
    /\ server = "running"

\* C30: final results are appended.  The final status write of a successful
\* run leaves the tracking note with the content it had before (the initial
\* body or the last progress update) followed by the final result.
C30_FinalResultAppended ==
    [][(finalStatus = "" /\ finalStatus' = "success") =>
            note' = note \o "success"]_vars

-----------------------------------------------------------------------------
(* Vocabulary of the properties on the prompt *)
AppearsIn(n, entries) ==
    \E i \in 1..Len(entries) :
        entries[i].author = renderedAuthor(n) /\ entries[i].body = renderedBody(n)

\* C31: the prompt holds every comment of the three non-agent categories:
\* each note of triggerComments, contextComments and resolvedComments has its
\* author and body in an entry of the text formatGitLabDataForPrompt built.
C31_PromptHasAllComments ==
    prompt # None =>
        LET c == categorized[1]
            all == c.triggerComments \o c.contextComments \o c.resolvedComments
        IN  \A i \in 1..Len(all) : AppearsIn(all[i], prompt[1])

-----------------------------------------------------------------------------
(* Vocabulary of the property on the order of the classifier's arrays *)
Traversal == Flatten([k \in 1..Len(discussions) |-> discussions[k].notes])

Rank(n) == CHOOSE i \in 1..Len(Traversal) : Traversal[i] = n

InTraversalOrder(seq) ==
    \A i \in 1..Len(seq) : \A j \in 1..Len(seq) : i < j => Rank(seq[i]) < Rank(seq[j])

\* C32: each array of the classifier keeps the traversal order, discussions
\* in input order and notes in their order within the discussion; the arrays
\* are not re-sorted by creation time (note id).
C32_TraversalOrder ==
    categorized # None =>
        /\ InTraversalOrder(categorized[1].triggerComments)
        /\ InTraversalOrder(categorized[1].contextComments)
        /\ InTraversalOrder(categorized[1].resolvedComments)
        /\ InTraversalOrder(categorized[1].claudeReplies)

C32_Witness ==
    /\ categorized # None
    /\ Len(categorized[1].contextComments) = 3
    /\ categorized[1].contextComments[2].id > categorized[1].contextComments[3].id
    /\ Len(discussions) = 2

-----------------------------------------------------------------------------
(* Vocabulary of the property on parseGitLabContext *)
IsSet(v) == v # None /\ v[1] # <<>>

FirstToken ==
    IF IsSet(env.GITLAB_TOKEN) THEN env.GITLAB_TOKEN
    ELSE IF IsSet(env.CLAUDE_BOT_TOKEN) THEN env.CLAUDE_BOT_TOKEN
    ELSE IF IsSet(env.CI_JOB_TOKEN) THEN env.CI_JOB_TOKEN
    ELSE None

Parsed == pc = "check"

-----------------------------------------------------------------------------
(* Vocabulary of the property relating checkTrigger and the classifier *)
CountedAsTriggers ==
    LET counted == collectTriggers(discussions, context)
    IN  [i \in 1..Len(counted) |-> counted[i].note]

AllAnswered ==
    result # None /\ result[1].reason = "All trigger comments already have Claude replies"

\* C34: checkTrigger and the classifier agree on what a trigger is.  The
\* notes checkTrigger collects as trigger comments are exactly the
\* classifier's triggerComments, none of them is authored by the agent, and
\* the outcome 'all trigger comments already have replies' needs a trigger
\* note of the classifier.
C34_SameTriggers ==
    (result # None /\ categorized # None) =>
        /\ CountedAsTriggers = categorized[1].triggerComments
        /\ \A i \in 1..Len(CountedAsTriggers) : ~AgentAuthored(CountedAsTriggers[i])
        /\ AllAnswered => categorized[1].triggerComments # <<>>

-----------------------------------------------------------------------------
(* Two pipeline jobs started for the same review unit (two webhook events,
   or a retried job) each run main(): the host is the only state they share.
   Between `await api.checkTrigger(context)` (main.ts 327) and the
   `await api.createReply / createComment` (main.ts 340-365) a job holds no
   lock and the other job's host calls can take place. *)
Jobs == 1..2

InitJobs ==
    /\ prompt = None
    /\ jobs = [j \in Jobs |-> [pc |-> "check", result |-> None, created |-> None]]
    /\ discussions \in {WithIds(raw) :
                            raw \in RawDiscussions(MaxDiscussions - 1, MaxNotes - 1, {FALSE})}
    /\ context \in {[isMR |-> b, triggerPhrase |-> AtClaude] : b \in BOOLEAN}
    /\ entity \in {[assignee |-> None, assignees |-> <<>>, labels |-> l] :
                        l \in {<<>>, <<"claude">>}}
    /\ result = None
    /\ categorized = None
    /\ fault = None
    /\ raised = FALSE
    /\ DetectIdle
    /\ RelayIdle
    /\ MainIdle

(* main.ts 327-335: the job's trigger check on the host's current
   discussions, then process.exit(0) when it says not to run *)
JobCheck(j) ==
    /\ jobs[j].pc = "check"
    /\ LET r == checkTrigger(discussions, context, entity)
       IN  jobs' = [jobs EXCEPT ![j] = [pc |-> IF r.shouldRun THEN "create" ELSE "exit0",
                                        result |-> Some(r), created |-> None]]
    /\ UNCHANGED <<triggerVars, detectVars, relayVars, mainVars, unpublished,
                   previous, toolVars, prompt>>

(* main.ts 338-365: the job's tracking note, created from the result of its
   own earlier check *)
JobCreate(j) ==
    /\ jobs[j].pc = "create"
    /\ discussions' = notesCreate(discussions, createdBody(jobs[j].result[1]))
    /\ jobs' = [jobs EXCEPT ![j].pc = "fetch",
                            ![j].created = Some(nextNoteId(discussions))]
    /\ UNCHANGED <<context, entity, result, categorized, fault, raised,
                   detectVars, relayVars, mainVars, unpublished,
                   previous, toolVars, prompt>>

NextJobs ==
    \/ \E j \in Jobs : JobCheck(j)
    \/ \E j \in Jobs : JobCreate(j)

SpecJobs == InitJobs /\ [][NextJobs]_vars

(* Job j ran for trigger note n and created a tracking note *)
RespondedTo(j, n) ==
    /\ jobs[j].created # None
    /\ jobs[j].result[1].shouldRun
    /\ \E i \in 1..Len(jobs[j].result[1].triggerComments) :
            jobs[j].result[1].triggerComments[i].note.id = n

\* C35: two invocations running concurrently on the same review unit never
\* both respond to the same trigger note: for no trigger note have both
\* jobs got shouldRun = true and created a tracking note.
C35_AtMostOneResponds ==
    \A d \in 1..Len(discussions) : \A k \in 1..Len(discussions[d].notes) :
        ~(RespondedTo(1, discussions[d].notes[k].id)
            /\ RespondedTo(2, discussions[d].notes[k].id))

-----------------------------------------------------------------------------
(* The relay of an invocation on a runner where an earlier invocation ran.
   UPDATE_FILE is the fixed path '/tmp/gitlab-comment-update.md'
   (comment-watcher.ts 597); main() kills the watcher in its finally block
   (main.ts 454-461) and neither main() nor the watcher removes or empties
   the file, so what the earlier agent wrote last is still there. *)
Leftover == "L"

InitLeftover ==
    /\ prompt = None
    /\ jobs = <<>>
    /\ pc = "start"
    /\ watcher = "none"
    /\ file \in {None, Some(Leftover)}
    /\ lastContent = ""
    /\ requests = {}
    /\ note = "initial"
    /\ polls = <<>>
    /\ published = <<>>
    /\ applied = <<>>
    /\ anyFailed = FALSE
    /\ finalStatus = ""
    /\ unpublished = {}
    /\ env = [PassingEnv EXCEPT !.CLAUDE_COMMENT_ID = Some(toString(TrackingId))]
    /\ trackingComment = Some(TrackingId)
    /\ error = None
    /\ log = <<NoteEvent("createComment", Some(TrackingId), "initial", TRUE)>>
    /\ previous = None
    /\ ToolIdle
    /\ TriggerIdle
    /\ DetectIdle

SpecLeftover == InitLeftover /\ [][NextRelay]_vars

\* C36: the relay never publishes content that was written to the progress
\* channel before the current invocation's agent started: the content left
\* by an earlier invocation is in no publish request and is never the body
\* of the new tracking note.
C36_LeftoverNotPublished ==
    /\ \A i \in 1..Len(published) : published[i] # Leftover
    /\ \A r \in requests : r.body # Leftover
    /\ note # Leftover

-----------------------------------------------------------------------------
(* The relay under fair scheduling: setInterval fires the callback every
   CHECK_INTERVAL while the watcher runs (comment-watcher.ts 619, 645), the
   host serves every request it has received and every awaited call that
   the host has served returns.  The agent is free to stop writing and a
   request is free never to fail, so AgentWrite and PublishFail carry no
   fairness. *)
FairRelay ==
    /\ WF_vars(Poll)
    /\ WF_vars(\E r \in requests : HostApply(r))
    /\ WF_vars(\E r \in requests : PublishReturn(r))

SpecRelayFair == InitRelay /\ [][NextRelay]_vars /\ FairRelay

(* The relay has come to rest on channel content v: the watcher runs, no
   publish is outstanding or has failed, and a poll that reads v publishes
   nothing because v is the content it recorded last *)
AtRest(v) ==
    /\ watcher = "running"
    /\ file = Some(v)
    /\ requests = {}
    /\ ~anyFailed
    /\ ~shouldPublish(file, lastContent)

\* C37: relay liveness.  While the relay runs, once the channel content has
\* stopped changing at a non-empty value v and the relay has come to rest
\* (no publish failed, none is outstanding and no poll publishes any more),
\* the body of the tracking note eventually equals v unless the channel
\* content changes again.
C37_RelayLiveness ==
    \A v \in AgentContents : [](AtRest(v) => <>(note = v \/ file # Some(v)))

-----------------------------------------------------------------------------
-----------------------------------------------------------------------------
(* An assignee of the review unit is an account that reply detection takes
   for the agent *)
AssignedByPattern ==
    \/ (entity.assignee # None /\ claudeBotPattern(entity.assignee[1]))
    \/ \E i \in 1..Len(entity.assignees) : claudeBotPattern(entity.assignees[i])

\* C39: one agent identity is used throughout the decision.  A username
\* counts as the agent for the assignment rule exactly when it counts as
\* the agent for reply detection: on a merge request with no trigger note,
\* checkTrigger returns kind 'assignment' exactly when an assignee matches
\* the identity pattern of reply detection.
C39_OneIdentity ==
    (result # None /\ context.isMR /\ TriggerPositions = {}) =>
        (result[1].triggerType = Some("assignment") <=> AssignedByPattern)

====
